---- MODULE Spec2Model ----
(***************************************************************************)
(* Jumpy Frog (the later design, with persistent/timed power-ups): the      *)
(* per-frame update of the simulation, the run-state handling around it     *)
(* and the procedural generation.                                           *)
(*                                                                          *)
(* Units.  The game computes in floating-point pixels.  Every length and    *)
(* velocity here is an integer number of hundredths of a pixel, so that     *)
(* GRAVITY = 0.4 is 40, CAPE_GRAVITY = 0.08 is 8 and JUMP_FORCE * 1.6 =     *)
(* -22.4 is -2240.  Products by 0.85 are truncated to a hundredth.          *)
(* Cosmetic state no rule reads (particles, clouds, colours, animation      *)
(* phases, the sun) is left out.                                            *)
(***************************************************************************)
EXTENDS Integers, Sequences, FiniteSets, TLC

\* ------------------------------------------------------------- constants
CANVAS_WIDTH == 40000
CANVAS_HEIGHT == 70000
GRAVITY == 40
JUMP_FORCE == -1400
MOVE_SPEED == 600
ROCKET_SPEED == -2000
PROPELLER_SPEED == -800
CAPE_GRAVITY == 8
CAPE_MAX_FALL_SPEED == 200
MAGNET_RANGE == 15000
MAGNET_PULL_SPEED == 800
SUMO_BOUNCE_FORCE == -1800
INVINCIBILITY_DURATION == 90
FROG_WIDTH == 6000
FROG_HEIGHT == 7000

\* SPRING_SHOES_JUMP_MULTIPLIER = 1.6 applied to a jump force
SpringShoesJump(force) == (force * 16) \div 10

GEM_VALUES == [blue |-> 10, orange |-> 25, purple |-> 50]

POWER_CONFIG ==
  [rocket      |-> [duration |-> 90],
   propeller   |-> [duration |-> 150],
   magnet      |-> [duration |-> 360],
   sumo        |-> [duration |-> 150],
   springShoes |-> [jumps |-> 5],
   shield      |-> [maxHits |-> 2],
   laser       |-> [cooldown |-> 15],
   shotgun     |-> [cooldown |-> 40],
   tommyGun    |-> [cooldown |-> 5]]

POWERUP_TYPES ==
  {"rocket", "cape", "spring", "shield", "propeller", "springShoes",
   "magnet", "sumo", "laser", "shotgun", "tommyGun"}

\* ------------------------------------------------------------- bounds
\* Calls of update explored from an initial state.
MaxTicks == 2
\* Key events (presses and releases) explored from an initial state.
MaxKeyEvents == 1
\* Runs started (initGame calls from the UI) explored from an initial state.
MaxRuns == 1
\* generatePlatform calls of one run's generation loop whose random draws are
\* explored beyond the default outcome (a plain centred platform with nothing
\* on it).
MaxRandom == 1
\* generatePlatform calls of initGame, counted from its last (topmost) one,
\* whose random draws are explored beyond the default outcome.
MaxInitRandom == 1

\* ------------------------------------------------------------- helpers
Px(n) == n * 100

Max(a, b) == IF a >= b THEN a ELSE b
Min(a, b) == IF a <= b THEN a ELSE b

\* a * num / den, truncated toward zero
MulDiv(a, num, den) ==
  IF a >= 0 THEN (a * num) \div den ELSE -(((-a) * num) \div den)

RemoveAt(s, i) == [k \in 1..(Len(s) - 1) |-> IF k < i THEN s[k] ELSE s[k + 1]]

\* checkCollision(a, b, padding): axis-aligned overlap with inset padding
checkCollision(ax, ay, aw, ah, bx, by, bw, bh, padding) ==
  /\ ax + padding < bx + bw - padding
  /\ ax + aw - padding > bx + padding
  /\ ay + padding < by + bh - padding
  /\ ay + ah - padding > by + padding

\* ------------------------------------------------------------- the frog
createFrog ==
  [x |-> CANVAS_WIDTH \div 2 - Px(30), y |-> Px(500), vx |-> 0, vy |-> 0,
   hasRocket |-> FALSE, rocketTimer |-> 0,
   hasPropeller |-> FALSE, propellerTimer |-> 0, propellerAngle |-> 0,
   hasSpringShoes |-> FALSE, springShoesJumps |-> 0,
   hasMagnet |-> FALSE, magnetTimer |-> 0,
   hasSumo |-> FALSE, sumoTimer |-> 0,
   hasCape |-> FALSE,
   hasShield |-> FALSE, shieldHits |-> 0,
   hasLaser |-> FALSE, hasShotgun |-> FALSE, hasTommyGun |-> FALSE,
   weaponCooldown |-> 0,
   invincible |-> FALSE, invincibleTimer |-> 0, flashTimer |-> 0]

hasAnyPower(f) ==
  \/ f.hasRocket \/ f.hasCape \/ f.hasShield \/ f.hasPropeller
  \/ f.hasSpringShoes \/ f.hasMagnet \/ f.hasSumo
  \/ f.hasLaser \/ f.hasShotgun \/ f.hasTommyGun

hasPersistentPower(f) ==
  f.hasCape \/ f.hasShield \/ f.hasLaser \/ f.hasShotgun \/ f.hasTommyGun

hasWeapon(f) == f.hasLaser \/ f.hasShotgun \/ f.hasTommyGun

clearAllPowers(f) ==
  [f EXCEPT !.hasRocket = FALSE, !.rocketTimer = 0,
            !.hasCape = FALSE,
            !.hasShield = FALSE, !.shieldHits = 0,
            !.hasPropeller = FALSE, !.propellerTimer = 0,
            !.hasSpringShoes = FALSE, !.springShoesJumps = 0,
            !.hasMagnet = FALSE, !.magnetTimer = 0,
            !.hasSumo = FALSE, !.sumoTimer = 0,
            !.hasLaser = FALSE, !.hasShotgun = FALSE, !.hasTommyGun = FALSE,
            !.weaponCooldown = 0]

\* The switch of the powerup collection: the effect of one pickup type on a
\* frog whose powers have just been cleared.
\* Faulty variant: the spring pickup stays on as one jump of spring shoes.
ApplyPowerup_SpringKept(f, type) ==
  CASE type = "rocket" ->
         [f EXCEPT !.hasRocket = TRUE, !.rocketTimer = POWER_CONFIG.rocket.duration]
    [] type = "cape" -> [f EXCEPT !.hasCape = TRUE]
    [] type = "spring" -> [f EXCEPT !.vy = (JUMP_FORCE * 25) \div 10,
                                    !.hasSpringShoes = TRUE, !.springShoesJumps = 1]
    [] type = "shield" -> [f EXCEPT !.hasShield = TRUE, !.shieldHits = 0]
    [] type = "propeller" ->
         [f EXCEPT !.hasPropeller = TRUE,
                   !.propellerTimer = POWER_CONFIG.propeller.duration]
    [] type = "springShoes" ->
         [f EXCEPT !.hasSpringShoes = TRUE,
                   !.springShoesJumps = POWER_CONFIG.springShoes.jumps]
    [] type = "magnet" ->
         [f EXCEPT !.hasMagnet = TRUE, !.magnetTimer = POWER_CONFIG.magnet.duration]
    [] type = "sumo" ->
         [f EXCEPT !.hasSumo = TRUE, !.sumoTimer = POWER_CONFIG.sumo.duration]
    [] type = "laser" -> [f EXCEPT !.hasLaser = TRUE, !.weaponCooldown = 0]
    [] type = "shotgun" -> [f EXCEPT !.hasShotgun = TRUE, !.weaponCooldown = 0]
    [] type = "tommyGun" -> [f EXCEPT !.hasTommyGun = TRUE, !.weaponCooldown = 0]
    [] OTHER -> f

ApplyPowerup(f, type) ==
  CASE type = "rocket" ->
         [f EXCEPT !.hasRocket = TRUE, !.rocketTimer = POWER_CONFIG.rocket.duration]
    [] type = "cape" -> [f EXCEPT !.hasCape = TRUE]
    [] type = "spring" -> [f EXCEPT !.vy = (JUMP_FORCE * 25) \div 10]
    [] type = "shield" -> [f EXCEPT !.hasShield = TRUE, !.shieldHits = 0]
    [] type = "propeller" ->
         [f EXCEPT !.hasPropeller = TRUE,
                   !.propellerTimer = POWER_CONFIG.propeller.duration]
    [] type = "springShoes" ->
         [f EXCEPT !.hasSpringShoes = TRUE,
                   !.springShoesJumps = POWER_CONFIG.springShoes.jumps]
    [] type = "magnet" ->
         [f EXCEPT !.hasMagnet = TRUE, !.magnetTimer = POWER_CONFIG.magnet.duration]
    [] type = "sumo" ->
         [f EXCEPT !.hasSumo = TRUE, !.sumoTimer = POWER_CONFIG.sumo.duration]
    [] type = "laser" -> [f EXCEPT !.hasLaser = TRUE, !.weaponCooldown = 0]
    [] type = "shotgun" -> [f EXCEPT !.hasShotgun = TRUE, !.weaponCooldown = 0]
    [] type = "tommyGun" -> [f EXCEPT !.hasTommyGun = TRUE, !.weaponCooldown = 0]
    [] OTHER -> f

\* One collected pickup: clear the previous powers, then apply the new one.
\* Faulty variant: the pickup is applied on top of what is held.
CollectPowerup_NoClear(f, type) == ApplyPowerup(f, type)

CollectPowerup(f, type) == ApplyPowerup(clearAllPowers(f), type)

\* ------------------------------------------------------------- update: movement
\* Horizontal input, power-up physics, timed power-ups, invincibility timer,
\* weapon cooldown, integration and screen wrap.
MoveInput(f, k) ==
  [f EXCEPT !.vx = IF k.left THEN -MOVE_SPEED
                   ELSE IF k.right THEN MOVE_SPEED
                   ELSE MulDiv(f.vx, 85, 100)]

\* Faulty variant: flight expires one tick late (< for <=).
PowerPhysics_LateExpiry(f) ==
  IF f.hasRocket THEN
    [f EXCEPT !.vy = ROCKET_SPEED,
              !.rocketTimer = f.rocketTimer - 1,
              !.hasRocket = ~(f.rocketTimer - 1 < 0)]
  ELSE IF f.hasPropeller THEN
    [f EXCEPT !.vy = PROPELLER_SPEED,
              !.propellerAngle = f.propellerAngle + 50,
              !.propellerTimer = f.propellerTimer - 1,
              !.hasPropeller = ~(f.propellerTimer - 1 < 0)]
  ELSE IF f.hasCape /\ f.vy > 0 THEN
    [f EXCEPT !.vy = Min(f.vy + CAPE_GRAVITY, CAPE_MAX_FALL_SPEED)]
  ELSE
    [f EXCEPT !.vy = f.vy + GRAVITY]

PowerPhysics(f) ==
  IF f.hasRocket THEN
    [f EXCEPT !.vy = ROCKET_SPEED,
              !.rocketTimer = f.rocketTimer - 1,
              !.hasRocket = ~(f.rocketTimer - 1 <= 0)]
  ELSE IF f.hasPropeller THEN
    [f EXCEPT !.vy = PROPELLER_SPEED,
              !.propellerAngle = f.propellerAngle + 50,
              !.propellerTimer = f.propellerTimer - 1,
              !.hasPropeller = ~(f.propellerTimer - 1 <= 0)]
  ELSE IF f.hasCape /\ f.vy > 0 THEN
    [f EXCEPT !.vy = Min(f.vy + CAPE_GRAVITY, CAPE_MAX_FALL_SPEED)]
  ELSE
    [f EXCEPT !.vy = f.vy + GRAVITY]

\* Faulty variant: the spring shoes wear out by the frame, like the magnet.
TimedPowers_ShoesPerFrame(f) ==
  LET m == IF f.hasMagnet
           THEN [f EXCEPT !.magnetTimer = f.magnetTimer - 1,
                          !.hasMagnet = ~(f.magnetTimer - 1 <= 0)]
           ELSE f
      n == IF m.hasSpringShoes
           THEN [m EXCEPT !.springShoesJumps = m.springShoesJumps - 1,
                          !.hasSpringShoes = ~(m.springShoesJumps - 1 <= 0)]
           ELSE m
  IN IF n.hasSumo
     THEN [n EXCEPT !.sumoTimer = n.sumoTimer - 1,
                    !.hasSumo = ~(n.sumoTimer - 1 <= 0)]
     ELSE n

\* Faulty variant: the magnet and the sumo suit run out one frame late.
TimedPowers_LateExpiry(f) ==
  LET m == IF f.hasMagnet
           THEN [f EXCEPT !.magnetTimer = f.magnetTimer - 1,
                          !.hasMagnet = ~(f.magnetTimer - 1 < 0)]
           ELSE f
  IN IF m.hasSumo
     THEN [m EXCEPT !.sumoTimer = m.sumoTimer - 1,
                    !.hasSumo = ~(m.sumoTimer - 1 < 0)]
     ELSE m

TimedPowers(f) ==
  LET m == IF f.hasMagnet
           THEN [f EXCEPT !.magnetTimer = f.magnetTimer - 1,
                          !.hasMagnet = ~(f.magnetTimer - 1 <= 0)]
           ELSE f
  IN IF m.hasSumo
     THEN [m EXCEPT !.sumoTimer = m.sumoTimer - 1,
                    !.hasSumo = ~(m.sumoTimer - 1 <= 0)]
     ELSE m

\* Faulty variant: the invincible flag outlives its timer by one frame.
InvincibilityTimer_LateExpiry(f) ==
  IF f.invincible
  THEN [f EXCEPT !.invincibleTimer = f.invincibleTimer - 1,
                 !.flashTimer = f.invincibleTimer - 1,
                 !.invincible = ~(f.invincibleTimer - 1 < 0)]
  ELSE f

InvincibilityTimer(f) ==
  IF f.invincible
  THEN [f EXCEPT !.invincibleTimer = f.invincibleTimer - 1,
                 !.flashTimer = f.invincibleTimer - 1,
                 !.invincible = ~(f.invincibleTimer - 1 <= 0)]
  ELSE f

WeaponCooldown(f) ==
  IF f.weaponCooldown > 0 THEN [f EXCEPT !.weaponCooldown = f.weaponCooldown - 1] ELSE f

Integrate(f) ==
  LET x1 == f.x + f.vx
      x2 == IF x1 > CANVAS_WIDTH THEN -FROG_WIDTH ELSE x1
      x3 == IF x2 < -FROG_WIDTH THEN CANVAS_WIDTH ELSE x2
  IN [f EXCEPT !.x = x3, !.y = f.y + f.vy]

Movement(f, k) ==
  Integrate(WeaponCooldown(InvincibilityTimer(TimedPowers(PowerPhysics(MoveInput(f, k))))))

\* Camera follow: the camera adopts a target above it; the score is the
\* maximum of itself and floor(-cameraY / 10) pixels.
CameraTarget(f) == f.y - (CANVAS_HEIGHT * 4) \div 10

\* Faulty variant: the camera follows the frog down as well.
CameraFollow_BothWays(f, cam) == CameraTarget(f)

CameraFollow(f, cam) == IF CameraTarget(f) < cam THEN CameraTarget(f) ELSE cam

AltitudeScore(cam) == (-cam) \div 1000

\* Faulty variant: the score is set to the altitude, without the maximum.
ScoreFollow_NoMax(f, cam, sc) ==
  IF CameraTarget(f) < cam THEN AltitudeScore(CameraTarget(f)) ELSE sc

\* Faulty variant: the altitude score is added to the score.
ScoreFollow_Accumulate(f, cam, sc) ==
  IF CameraTarget(f) < cam THEN sc + AltitudeScore(CameraTarget(f)) ELSE sc

ScoreFollow(f, cam, sc) ==
  IF CameraTarget(f) < cam THEN Max(sc, AltitudeScore(CameraTarget(f))) ELSE sc

\* ------------------------------------------------------------- update: platforms
\* The landing test of one platform against the frog as it is at that point
\* of the loop (frog.vy is read again for every platform).
\* Faulty variant: a broken platform still carries the frog.
LandingTest_Broken(f, p) ==
  /\ f.x + FROG_WIDTH > p.x
  /\ f.x < p.x + p.width
  /\ f.y + FROG_HEIGHT > p.y
  /\ f.y + FROG_HEIGHT < p.y + p.height + f.vy + Px(5)

LandingTest(f, p) ==
  /\ ~p.broken
  /\ f.x + FROG_WIDTH > p.x
  /\ f.x < p.x + p.width
  /\ f.y + FROG_HEIGHT > p.y
  /\ f.y + FROG_HEIGHT < p.y + p.height + f.vy + Px(5)

\* The jump force of a landing: spring shoes multiply it and use up a jump.
\* Faulty variant: a spring platform gives the plain jump.
LandFrog_NoSpring(f, p) ==
  LET shoes == f.hasSpringShoes
      jumpForce == IF shoes THEN SpringShoesJump(JUMP_FORCE) ELSE JUMP_FORCE
      f1 == IF shoes
            THEN [f EXCEPT !.springShoesJumps = f.springShoesJumps - 1,
                           !.hasSpringShoes = ~(f.springShoesJumps - 1 <= 0)]
            ELSE f
  IN [f1 EXCEPT !.vy = jumpForce]

LandFrog(f, p) ==
  LET shoes == f.hasSpringShoes
      jumpForce == IF shoes THEN SpringShoesJump(JUMP_FORCE) ELSE JUMP_FORCE
      f1 == IF shoes
            THEN [f EXCEPT !.springShoesJumps = f.springShoesJumps - 1,
                           !.hasSpringShoes = ~(f.springShoesJumps - 1 <= 0)]
            ELSE f
  IN [f1 EXCEPT !.vy = IF p.type = "spring" THEN (jumpForce * 15) \div 10 ELSE jumpForce]

LandPlatform(p) == IF p.type = "breakable" THEN [p EXCEPT !.broken = TRUE] ELSE p

\* for (const platform of g.platforms): st = [frog, platforms, landings]
RECURSIVE PlatformLoop(_, _)
PlatformLoop(st, i) ==
  IF i > Len(st.platforms) THEN st
  ELSE LET p == st.platforms[i]
       IN IF LandingTest(st.frog, p)
          THEN PlatformLoop([frog |-> LandFrog(st.frog, p),
                             platforms |-> [st.platforms EXCEPT ![i] = LandPlatform(p)],
                             landings |-> Append(st.landings, i)], i + 1)
          ELSE PlatformLoop(st, i + 1)

\* Faulty variant: the platform loop runs whatever the frog's velocity and flight.
PlatformCollision_NoGuard(f, ps) ==
  PlatformLoop([frog |-> f, platforms |-> ps, landings |-> <<>>], 1)

PlatformCollision(f, ps) ==
  IF f.vy > 0 /\ ~f.hasRocket /\ ~f.hasPropeller
  THEN PlatformLoop([frog |-> f, platforms |-> ps, landings |-> <<>>], 1)
  ELSE [frog |-> f, platforms |-> ps, landings |-> <<>>]

\* Moving platforms translate and reflect at either screen edge.
MovePlatform(p) ==
  IF p.type = "moving"
  THEN LET x1 == p.x + p.vx
       IN [p EXCEPT !.x = x1,
                    !.vx = IF x1 <= 0 \/ x1 + p.width >= CANVAS_WIDTH THEN -p.vx ELSE p.vx]
  ELSE p

MovingPlatforms(ps) == [i \in 1..Len(ps) |-> MovePlatform(ps[i])]

\* ------------------------------------------------------------- update: gems
GEM_WIDTH == 3000
GEM_HEIGHT == 4000

\* floor of the square root, for distances in whole pixels
RECURSIVE IsqrtBetween(_, _, _)
IsqrtBetween(n, lo, hi) ==
  IF lo = hi THEN lo
  ELSE LET mid == (lo + hi + 1) \div 2
       IN IF mid * mid <= n THEN IsqrtBetween(n, mid, hi) ELSE IsqrtBetween(n, lo, mid - 1)

Isqrt(n) ==
  IF n >= 1440000 THEN 1200 ELSE IsqrtBetween(n, 0, 1200)

\* getDistance in whole pixels (the operands are truncated to pixels first;
\* distances of 1200 pixels and more read 1200, above every range compared)
getDistance(x1, y1, x2, y2) ==
  LET dx == MulDiv(x2 - x1, 1, 100)
      dy == MulDiv(y2 - y1, 1, 100)
  IN Isqrt(dx * dx + dy * dy)

\* cos(angle) * speed and sin(angle) * speed for the direction (dx, dy)
Toward(dx, dy, speed) ==
  LET px == MulDiv(dx, 1, 100)
      py == MulDiv(dy, 1, 100)
      d == Isqrt(px * px + py * py)
  IN IF d = 0 THEN [x |-> speed, y |-> 0]
     ELSE [x |-> MulDiv(px, speed, d), y |-> MulDiv(py, speed, d)]

\* Magnet: an uncollected gem nearer than MAGNET_RANGE and farther than 5
\* pixels moves MAGNET_PULL_SPEED toward the frog's centre.
MagnetPull(f, gem) ==
  LET cx == f.x + FROG_WIDTH \div 2
      cy == f.y + FROG_HEIGHT \div 2
      gx == gem.x + GEM_WIDTH \div 2
      gy == gem.y + GEM_HEIGHT \div 2
      dist == getDistance(cx, cy, gx, gy)
      v == Toward(cx - gx, cy - gy, MAGNET_PULL_SPEED)
  IN IF ~gem.collected /\ dist * 100 < MAGNET_RANGE /\ dist > 5
     THEN [gem EXCEPT !.x = gem.x + v.x, !.y = gem.y + v.y]
     ELSE gem

MagnetAttraction(f, gs) ==
  IF f.hasMagnet THEN [i \in 1..Len(gs) |-> MagnetPull(f, gs[i])] ELSE gs

GemHit(f, gem) ==
  /\ ~gem.collected
  /\ checkCollision(f.x, f.y, FROG_WIDTH, FROG_HEIGHT, gem.x, gem.y, GEM_WIDTH, GEM_HEIGHT, 0)

\* Faulty variant: a gem that is hit is scored but not marked.
CollectGem_NoMark(f, gem) == gem

CollectGem(f, gem) == IF GemHit(f, gem) THEN [gem EXCEPT !.collected = TRUE] ELSE gem

GemCollection(f, gs) == [i \in 1..Len(gs) |-> CollectGem(f, gs[i])]

RECURSIVE GemScore(_, _, _)
GemScore(f, gs, i) ==
  IF i > Len(gs) THEN 0
  ELSE (IF GemHit(f, gs[i]) THEN GEM_VALUES[gs[i].type] ELSE 0) + GemScore(f, gs, i + 1)

\* the gems the loop collects, in loop order
RECURSIVE HitGems(_, _, _)
HitGems(f, gs, i) ==
  IF i > Len(gs) THEN <<>>
  ELSE (IF GemHit(f, gs[i]) THEN <<gs[i]>> ELSE <<>>) \o HitGems(f, gs, i + 1)

\* ------------------------------------------------------------- update: pickups
POWERUP_WIDTH == 4000
POWERUP_HEIGHT == 5000

PowerupHit(f, pu) ==
  /\ ~pu.collected
  /\ checkCollision(f.x, f.y, FROG_WIDTH, FROG_HEIGHT,
                    pu.x, pu.y, POWERUP_WIDTH, POWERUP_HEIGHT, 0)

\* for (const powerup of g.powerups): st = [frog, powerups, picked]
RECURSIVE PowerupLoop(_, _)
PowerupLoop(st, i) ==
  IF i > Len(st.powerups) THEN st
  ELSE LET pu == st.powerups[i]
       IN IF PowerupHit(st.frog, pu)
          THEN PowerupLoop([frog |-> CollectPowerup(st.frog, pu.type),
                            powerups |-> [st.powerups EXCEPT ![i].collected = TRUE],
                            picked |-> Append(st.picked, pu.type)], i + 1)
          ELSE PowerupLoop(st, i + 1)

PowerupCollection(f, pus) == PowerupLoop([frog |-> f, powerups |-> pus, picked |-> <<>>], 1)

\* ------------------------------------------------------------- update: shooting
ENEMY_SIZE == 4500
LASER_RANGE == 400
LASER_SPEED == 1500

\* The laser's target: the nearest enemy strictly nearer than 400 pixels,
\* the first such in array order among equals; 0 when there is none.
RECURSIVE NearestEnemy(_, _, _, _, _, _)
NearestEnemy(cx, cy, es, i, best, bestDist) ==
  IF i > Len(es) THEN best
  ELSE LET d == getDistance(cx, cy, es[i].x + ENEMY_SIZE \div 2, es[i].y + ENEMY_SIZE \div 2)
       IN IF d < bestDist
          THEN NearestEnemy(cx, cy, es, i + 1, i, d)
          ELSE NearestEnemy(cx, cy, es, i + 1, best, bestDist)

\* Faulty variant: the laser locks on the nearest enemy at any distance.
LaserBullet_AnyRange(f, es) ==
  LET cx == f.x + FROG_WIDTH \div 2
      cy == f.y + FROG_HEIGHT \div 2
      n == NearestEnemy(cx, cy, es, 1, 0, 1201)
      v == IF n = 0 THEN [x |-> LASER_SPEED, y |-> 0]
           ELSE Toward(es[n].x + ENEMY_SIZE \div 2 - cx,
                       es[n].y + ENEMY_SIZE \div 2 - cy, LASER_SPEED)
  IN [x |-> cx, y |-> cy, vx |-> v.x, vy |-> v.y, type |-> "laser"]

LaserBullet(f, es) ==
  LET cx == f.x + FROG_WIDTH \div 2
      cy == f.y + FROG_HEIGHT \div 2
      n == NearestEnemy(cx, cy, es, 1, 0, LASER_RANGE)
      v == IF n = 0 THEN [x |-> LASER_SPEED, y |-> 0]
           ELSE Toward(es[n].x + ENEMY_SIZE \div 2 - cx,
                       es[n].y + ENEMY_SIZE \div 2 - cy, LASER_SPEED)
  IN [x |-> cx, y |-> cy, vx |-> v.x, vy |-> v.y, type |-> "laser"]

\* cos and sin of -PI/2 + i * 0.3 times 10, for i = -1, 0, 1
ShotgunBullets(f) ==
  LET cx == f.x + FROG_WIDTH \div 2
      cy == f.y + FROG_HEIGHT \div 2
  IN << [x |-> cx, y |-> cy, vx |-> -296, vy |-> -955, type |-> "shotgun"],
        [x |-> cx, y |-> cy, vx |-> 0, vy |-> -1000, type |-> "shotgun"],
        [x |-> cx, y |-> cy, vx |-> 296, vy |-> -955, type |-> "shotgun"] >>

\* The tommy gun's spread (Math.random() - 0.5) * 0.3 at its two ends and
\* its middle: cos and sin of -PI/2 + spread times 12.
TommySpreads == {-1, 0, 1}

TommyBullet(f, spread) ==
  [x |-> f.x + FROG_WIDTH \div 2, y |-> f.y + FROG_HEIGHT \div 2,
   vx |-> spread * 179, vy |-> IF spread = 0 THEN -1200 ELSE -1187,
   type |-> "tommyGun"]

CanShoot(f, k) == k.shoot /\ hasWeapon(f) /\ f.weaponCooldown = 0

\* Faulty variant: a shot leaves the cooldown alone.
Shooting_NoCooldown(f, es, bs, k, spread) ==
  IF ~CanShoot(f, k) THEN [frog |-> f, bullets |-> bs]
  ELSE IF f.hasLaser THEN
    [frog |-> f, bullets |-> Append(bs, LaserBullet(f, es))]
  ELSE IF f.hasShotgun THEN
    [frog |-> f, bullets |-> bs \o ShotgunBullets(f)]
  ELSE
    [frog |-> f, bullets |-> Append(bs, TommyBullet(f, spread))]

\* Manual shooting: st = [frog, bullets]
Shooting(f, es, bs, k, spread) ==
  IF ~CanShoot(f, k) THEN [frog |-> f, bullets |-> bs]
  ELSE IF f.hasLaser THEN
    [frog |-> [f EXCEPT !.weaponCooldown = POWER_CONFIG.laser.cooldown],
     bullets |-> Append(bs, LaserBullet(f, es))]
  ELSE IF f.hasShotgun THEN
    [frog |-> [f EXCEPT !.weaponCooldown = POWER_CONFIG.shotgun.cooldown],
     bullets |-> bs \o ShotgunBullets(f)]
  ELSE
    [frog |-> [f EXCEPT !.weaponCooldown = POWER_CONFIG.tommyGun.cooldown],
     bullets |-> Append(bs, TommyBullet(f, spread))]

\* ------------------------------------------------------------- update: bullets
BulletInEnemy(b, e) ==
  /\ b.x > e.x /\ b.x < e.x + ENEMY_SIZE
  /\ b.y > e.y /\ b.y < e.y + ENEMY_SIZE

BulletOffScreen(b, cam) ==
  \/ b.x < 0 \/ b.x > CANVAS_WIDTH
  \/ b.y < cam - Px(100) \/ b.y > cam + CANVAS_HEIGHT + Px(100)

\* The enemy a bullet hits: the last one in array order containing it, or 0.
RECURSIVE BulletTarget(_, _, _)
BulletTarget(b, es, j) ==
  IF j < 1 THEN 0
  ELSE IF BulletInEnemy(b, es[j]) THEN j ELSE BulletTarget(b, es, j - 1)

\* One iteration of the bullet loop at index i (1-based): the bullet moves;
\* a hit removes the enemy and the bullet and scores 25; then the moved
\* bullet's position decides whether the element now at index i is removed.
\* hits records the moved bullet and the enemy of every hit, in loop order.
\* Faulty variant: a bullet that hits flies on.
BulletStep_Piercing(st, i, cam) ==
  LET b == [st.bullets[i] EXCEPT !.x = @ + st.bullets[i].vx, !.y = @ + st.bullets[i].vy]
      moved == [st.bullets EXCEPT ![i] = b]
      j == BulletTarget(b, st.enemies, Len(st.enemies))
      hit == j # 0
      es1 == IF hit THEN RemoveAt(st.enemies, j) ELSE st.enemies
      bs2 == IF i <= Len(moved) /\ BulletOffScreen(b, cam) THEN RemoveAt(moved, i) ELSE moved
  IN [bullets |-> bs2, enemies |-> es1,
      score |-> IF hit THEN st.score + 25 ELSE st.score,
      kills |-> IF hit THEN st.kills + 1 ELSE st.kills,
      hits |-> IF hit THEN Append(st.hits, [bullet |-> b, enemy |-> st.enemies[j]])
               ELSE st.hits]

BulletStep(st, i, cam) ==
  LET b == [st.bullets[i] EXCEPT !.x = @ + st.bullets[i].vx, !.y = @ + st.bullets[i].vy]
      moved == [st.bullets EXCEPT ![i] = b]
      j == BulletTarget(b, st.enemies, Len(st.enemies))
      hit == j # 0
      bs1 == IF hit THEN RemoveAt(moved, i) ELSE moved
      es1 == IF hit THEN RemoveAt(st.enemies, j) ELSE st.enemies
      bs2 == IF i <= Len(bs1) /\ BulletOffScreen(b, cam) THEN RemoveAt(bs1, i) ELSE bs1
  IN [bullets |-> bs2, enemies |-> es1,
      score |-> IF hit THEN st.score + 25 ELSE st.score,
      kills |-> IF hit THEN st.kills + 1 ELSE st.kills,
      hits |-> IF hit THEN Append(st.hits, [bullet |-> b, enemy |-> st.enemies[j]])
               ELSE st.hits]

RECURSIVE BulletLoop(_, _, _)
BulletLoop(st, i, cam) ==
  IF i < 1 THEN st ELSE BulletLoop(BulletStep(st, i, cam), i - 1, cam)

UpdateBullets(bs, es, sc, cam) ==
  BulletLoop([bullets |-> bs, enemies |-> es, score |-> sc, kills |-> 0, hits |-> <<>>],
             Len(bs), cam)

\* ------------------------------------------------------------- update: enemies
SHIELD_BREAK_INVINCIBILITY == 60

MoveEnemy(e) ==
  LET x1 == e.x + e.vx
  IN [e EXCEPT !.x = x1,
               !.vx = IF x1 <= 0 \/ x1 + ENEMY_SIZE >= CANVAS_WIDTH THEN -e.vx ELSE e.vx]

EnemyOverlap(f, e) ==
  checkCollision(f.x, f.y, FROG_WIDTH, FROG_HEIGHT, e.x, e.y, ENEMY_SIZE, ENEMY_SIZE, Px(5))

\* The rows of the Mario-style protection table: what one contact between
\* the frog and the (moved) enemy at index i does when that row applies.
\* st = [frog, enemies, score, over, contacts]
\* Faulty variant: the bounce kill scores nothing.
SumoContact_NoBonus(st, i) ==
  [st EXCEPT !.enemies = RemoveAt(st.enemies, i),
             !.frog = [st.frog EXCEPT !.vy = SUMO_BOUNCE_FORCE]]

SumoContact(st, i) ==
  [st EXCEPT !.enemies = RemoveAt(st.enemies, i),
             !.frog = [st.frog EXCEPT !.vy = SUMO_BOUNCE_FORCE],
             !.score = st.score + 100]

\* Faulty variant: the shield breaks one hit early.
ShieldContact_BreakEarly(st, i) ==
  LET f == st.frog
  IN [st EXCEPT !.enemies = RemoveAt(st.enemies, i),
                !.frog = IF f.shieldHits + 1 >= POWER_CONFIG.shield.maxHits - 1
                         THEN [f EXCEPT !.hasShield = FALSE, !.shieldHits = 0,
                                        !.invincible = TRUE,
                                        !.invincibleTimer = SHIELD_BREAK_INVINCIBILITY,
                                        !.flashTimer = SHIELD_BREAK_INVINCIBILITY]
                         ELSE [f EXCEPT !.shieldHits = f.shieldHits + 1]]

\* Faulty variant: the shield breaks one hit late (> for >=).
ShieldContact_BreakLate(st, i) ==
  LET f == st.frog
  IN [st EXCEPT !.enemies = RemoveAt(st.enemies, i),
                !.frog = IF f.shieldHits + 1 > POWER_CONFIG.shield.maxHits
                         THEN [f EXCEPT !.hasShield = FALSE, !.shieldHits = 0,
                                        !.invincible = TRUE,
                                        !.invincibleTimer = SHIELD_BREAK_INVINCIBILITY,
                                        !.flashTimer = SHIELD_BREAK_INVINCIBILITY]
                         ELSE [f EXCEPT !.shieldHits = f.shieldHits + 1]]

ShieldContact(st, i) ==
  LET f == st.frog
  IN [st EXCEPT !.enemies = RemoveAt(st.enemies, i),
                !.frog = IF f.shieldHits + 1 >= POWER_CONFIG.shield.maxHits
                         THEN [f EXCEPT !.hasShield = FALSE, !.shieldHits = 0,
                                        !.invincible = TRUE,
                                        !.invincibleTimer = SHIELD_BREAK_INVINCIBILITY,
                                        !.flashTimer = SHIELD_BREAK_INVINCIBILITY]
                         ELSE [f EXCEPT !.shieldHits = f.shieldHits + 1]]

\* Faulty variant: flight is lost on a hit like any other power.
FlightContact_LosePower(st, i) ==
  [st EXCEPT !.enemies = RemoveAt(st.enemies, i),
             !.frog = [clearAllPowers(st.frog) EXCEPT
                         !.invincible = TRUE,
                         !.invincibleTimer = INVINCIBILITY_DURATION,
                         !.flashTimer = INVINCIBILITY_DURATION]]

FlightContact(st, i) == [st EXCEPT !.enemies = RemoveAt(st.enemies, i)]

\* Faulty variant: the hit grants invincibility but the power is kept.
MarioContact_KeepPower(st, i) ==
  [st EXCEPT !.enemies = RemoveAt(st.enemies, i),
             !.frog = [st.frog EXCEPT
                         !.invincible = TRUE,
                         !.invincibleTimer = INVINCIBILITY_DURATION,
                         !.flashTimer = INVINCIBILITY_DURATION]]

MarioContact(st, i) ==
  [st EXCEPT !.enemies = RemoveAt(st.enemies, i),
             !.frog = [clearAllPowers(st.frog) EXCEPT
                         !.invincible = TRUE,
                         !.invincibleTimer = INVINCIBILITY_DURATION,
                         !.flashTimer = INVINCIBILITY_DURATION]]

\* Faulty variant: the unprotected hit is ignored.
GameOverContact_Ignore(st, i) == st

GameOverContact(st, i) == [st EXCEPT !.over = TRUE]

\* Faulty variant: the table without the invincibility skip.
EnemyContact_NoSkip(st, i) ==
  LET f == st.frog
  IN IF f.hasSumo THEN SumoContact(st, i)
     ELSE IF f.hasShield THEN ShieldContact(st, i)
     ELSE IF f.hasRocket \/ f.hasPropeller THEN FlightContact(st, i)
     ELSE IF hasAnyPower(f) THEN MarioContact(st, i)
     ELSE GameOverContact(st, i)

\* Faulty variant: the table without the row of the other powers.
EnemyContact_NoMario(st, i) ==
  LET f == st.frog
  IN IF f.invincible THEN st
     ELSE IF f.hasSumo THEN SumoContact(st, i)
     ELSE IF f.hasShield THEN ShieldContact(st, i)
     ELSE IF f.hasRocket \/ f.hasPropeller THEN FlightContact(st, i)
     ELSE GameOverContact(st, i)

\* The table in the order the code tests it, after the invincibility skip.
EnemyContact(st, i) ==
  LET f == st.frog
  IN IF f.invincible THEN st
     ELSE IF f.hasSumo THEN SumoContact(st, i)
     ELSE IF f.hasShield THEN ShieldContact(st, i)
     ELSE IF f.hasRocket \/ f.hasPropeller THEN FlightContact(st, i)
     ELSE IF hasAnyPower(f) THEN MarioContact(st, i)
     ELSE GameOverContact(st, i)

\* What one contact did, for the record of the tick: the frog and the score
\* before and after, whether the enemy was removed and whether the run was
\* ended by it.
ContactRecord(st, st2) ==
  [pre |-> st.frog, post |-> st2.frog,
   preScore |-> st.score, postScore |-> st2.score,
   removed |-> Len(st2.enemies) < Len(st.enemies),
   ended |-> st2.over,
   preOver |-> st.over]

\* One iteration of the enemy loop at index i: move, reflect, resolve.
EnemyStep(st, i) ==
  LET e == MoveEnemy(st.enemies[i])
      st1 == [st EXCEPT !.enemies[i] = e]
  IN IF EnemyOverlap(st.frog, e)
     THEN LET st2 == EnemyContact(st1, i)
          IN [st2 EXCEPT !.contacts = Append(st.contacts, ContactRecord(st1, st2))]
     ELSE st1

RECURSIVE EnemyLoop(_, _)
EnemyLoop(st, i) == IF i < 1 THEN st ELSE EnemyLoop(EnemyStep(st, i), i - 1)

EnemyCollision(f, es, sc) ==
  EnemyLoop([frog |-> f, enemies |-> es, score |-> sc, over |-> FALSE,
             contacts |-> <<>>], Len(es))

\* ------------------------------------------------------------- generation
PLATFORM_HEIGHT == 1800
START_PLATFORM_HEIGHT == 2000
INIT_PLATFORMS == 15
ENEMY_MIN_DEPTH == -50000
GENERATION_MARGIN == 20000
CULL_MARGIN == 10000

\* The random draws of one generatePlatform call (and, in the generation
\* loop, the vertical gap before it): the platform's type, speed, position
\* and width, whether a gem, an enemy or a pickup is rolled and which.
\* The default outcome is a plain centred platform with nothing on it.
DefaultDraw ==
  [gap |-> Px(110), type |-> "normal", pvx |-> 0, x |-> Px(160), width |-> Px(80),
   gem |-> "none", enemy |-> FALSE, ex |-> 0, evx |-> 0, powerup |-> "none"]

\* Outcomes explored beyond the default, each differing from it in one roll.
PlatformDraws ==
  { [DefaultDraw EXCEPT !.type = "moving", !.pvx = -250, !.x = Px(20), !.width = Px(70)],
    [DefaultDraw EXCEPT !.type = "breakable"],
    [DefaultDraw EXCEPT !.type = "spring"] }

SpawnDraws ==
  { [DefaultDraw EXCEPT !.gem = "purple"],
    [DefaultDraw EXCEPT !.enemy = TRUE, !.ex = 0, !.evx = -150],
    [DefaultDraw EXCEPT !.enemy = TRUE, !.ex = Px(170), !.evx = 150],
    [DefaultDraw EXCEPT !.powerup = "rocket"],
    [DefaultDraw EXCEPT !.powerup = "shield"] }

GapDraws ==
  { [DefaultDraw EXCEPT !.gap = Px(80)], [DefaultDraw EXCEPT !.gap = Px(139)] }

\* The draws open to a call of the generation loop: all of them while the
\* run's budget lasts.
LoopDraws(rnd) ==
  IF rnd < MaxRandom
  THEN {DefaultDraw} \cup PlatformDraws \cup SpawnDraws \cup GapDraws
  ELSE {DefaultDraw}

\* The spawns explored on initGame's topmost platforms, which lie a screen
\* above the frog: one gem, one enemy, one pickup.
InitSpawnDraws ==
  { [DefaultDraw EXCEPT !.gem = "purple"],
    [DefaultDraw EXCEPT !.enemy = TRUE, !.ex = Px(170), !.evx = 150],
    [DefaultDraw EXCEPT !.powerup = "shield"] }

\* initGame's call for the platform at y = -500, the last one too low for an
\* enemy
LAST_SAFE_CALL == 11

\* The draws open to call i of initGame (which uses no gap): every spawn on
\* the topmost calls, the enemy roll on the call at the enemy depth.
InitDraws(i) ==
  IF i >= INIT_PLATFORMS - MaxInitRandom
  THEN {DefaultDraw} \cup InitSpawnDraws
  ELSE IF i = LAST_SAFE_CALL
  THEN {DefaultDraw, [DefaultDraw EXCEPT !.enemy = TRUE, !.ex = Px(170), !.evx = 150]}
  ELSE {DefaultDraw}

\* generatePlatform(y, ...) with the draws d: w = [platforms, gems, enemies,
\* powerups, rnd]
\* Faulty variant: an enemy is rolled at every height.
generatePlatform_AnyDepth(y, w, d) ==
  LET platform == [x |-> d.x, y |-> y, width |-> d.width, height |-> PLATFORM_HEIGHT,
                   type |-> d.type, vx |-> d.pvx, broken |-> FALSE]
  IN [platforms |-> Append(w.platforms, platform),
      gems |-> IF d.gem # "none"
               THEN Append(w.gems, [x |-> platform.x + platform.width \div 2 - Px(15),
                                    y |-> platform.y - Px(50),
                                    type |-> d.gem, collected |-> FALSE])
               ELSE w.gems,
      enemies |-> IF d.enemy
                  THEN Append(w.enemies, [x |-> d.ex, y |-> y - Px(30), vx |-> d.evx])
                  ELSE w.enemies,
      powerups |-> IF d.powerup # "none"
                   THEN Append(w.powerups,
                               [x |-> platform.x + platform.width \div 2 - Px(20),
                                y |-> platform.y - Px(60),
                                type |-> d.powerup, collected |-> FALSE])
                   ELSE w.powerups,
      rnd |-> w.rnd]

generatePlatform(y, w, d) ==
  LET platform == [x |-> d.x, y |-> y, width |-> d.width, height |-> PLATFORM_HEIGHT,
                   type |-> d.type, vx |-> d.pvx, broken |-> FALSE]
  IN [platforms |-> Append(w.platforms, platform),
      gems |-> IF d.gem # "none"
               THEN Append(w.gems, [x |-> platform.x + platform.width \div 2 - Px(15),
                                    y |-> platform.y - Px(50),
                                    type |-> d.gem, collected |-> FALSE])
               ELSE w.gems,
      enemies |-> IF d.enemy /\ y < ENEMY_MIN_DEPTH
                  THEN Append(w.enemies, [x |-> d.ex, y |-> y - Px(30), vx |-> d.evx])
                  ELSE w.enemies,
      powerups |-> IF d.powerup # "none"
                   THEN Append(w.powerups,
                               [x |-> platform.x + platform.width \div 2 - Px(20),
                                y |-> platform.y - Px(60),
                                type |-> d.powerup, collected |-> FALSE])
                   ELSE w.powerups,
      rnd |-> w.rnd]

START_PLATFORM ==
  [x |-> CANVAS_WIDTH \div 2 - Px(40), y |-> Px(600), width |-> Px(80),
   height |-> START_PLATFORM_HEIGHT, type |-> "normal", vx |-> 0, broken |-> FALSE]

\* initGame's loop from call i on, then the start platform: the set of worlds
\* the draws can produce.
RECURSIVE InitLoop(_, _)
InitLoop(w, i) ==
  IF i >= INIT_PLATFORMS
  THEN {[w EXCEPT !.platforms = Append(w.platforms, START_PLATFORM)]}
  ELSE UNION { InitLoop(generatePlatform(Px(600) - i * Px(100), w, d), i + 1) :
               d \in InitDraws(i) }

EmptyWorld == [platforms |-> <<>>, gems |-> <<>>, enemies |-> <<>>, powerups |-> <<>>, rnd |-> 0]

initGame == InitLoop(EmptyWorld, 0)

RECURSIVE MinY(_, _)
MinY(ps, i) == IF i = Len(ps) THEN ps[i].y ELSE Min(ps[i].y, MinY(ps, i + 1))

\* Math.min(...g.platforms.map(p => p.y)) of a non-empty platform array
highestPlatform(ps) == MinY(ps, 1)

\* The generation loop of update: while the tracked top is within the
\* leading margin of the camera, generate a platform one gap further up.
RECURSIVE GenerateLoop(_, _, _)
\* Faulty variant: generation stops at the camera's top edge, no margin.
GenerateLoop_NoMargin(w, highest, cam) ==
  IF highest > cam
  THEN UNION { GenerateLoop([generatePlatform(highest - d.gap, w, d) EXCEPT
                               !.rnd = IF d = DefaultDraw THEN w.rnd ELSE w.rnd + 1],
                            highest - d.gap, cam) :
               d \in LoopDraws(w.rnd) }
  ELSE {w}

\* Faulty variant: the new platform is placed half a gap above the tracked top.
GenerateLoop_HalfGap(w, highest, cam) ==
  IF highest > cam - GENERATION_MARGIN
  THEN UNION { GenerateLoop([generatePlatform(highest - d.gap \div 2, w, d) EXCEPT
                               !.rnd = IF d = DefaultDraw THEN w.rnd ELSE w.rnd + 1],
                            highest - d.gap \div 2, cam) :
               d \in LoopDraws(w.rnd) }
  ELSE {w}

GenerateLoop(w, highest, cam) ==
  IF highest > cam - GENERATION_MARGIN
  THEN UNION { GenerateLoop([generatePlatform(highest - d.gap, w, d) EXCEPT
                               !.rnd = IF d = DefaultDraw THEN w.rnd ELSE w.rnd + 1],
                            highest - d.gap, cam) :
               d \in LoopDraws(w.rnd) }
  ELSE {w}

GeneratePlatforms(w, cam) == GenerateLoop(w, highestPlatform(w.platforms), cam)

\* ------------------------------------------------------------- cleanup, fall
\* Faulty variant: collected gems are left in their collection.
Cleanup_KeepCollected(w, cam) ==
  LET cleanupY == cam + CANVAS_HEIGHT + CULL_MARGIN
      KeepPlatform(p) == p.y < cleanupY
      KeepGem(gem) == gem.y < cleanupY
      KeepEnemy(e) == e.y < cleanupY
      KeepPowerup(pu) == pu.y < cleanupY /\ ~pu.collected
  IN [w EXCEPT !.platforms = SelectSeq(w.platforms, KeepPlatform),
               !.gems = SelectSeq(w.gems, KeepGem),
               !.enemies = SelectSeq(w.enemies, KeepEnemy),
               !.powerups = SelectSeq(w.powerups, KeepPowerup)]

\* Faulty variant: broken platforms are removed by their flag.
Cleanup_DropBroken(w, cam) ==
  LET cleanupY == cam + CANVAS_HEIGHT + CULL_MARGIN
      KeepPlatform(p) == p.y < cleanupY /\ ~p.broken
      KeepGem(gem) == gem.y < cleanupY /\ ~gem.collected
      KeepEnemy(e) == e.y < cleanupY
      KeepPowerup(pu) == pu.y < cleanupY /\ ~pu.collected
  IN [w EXCEPT !.platforms = SelectSeq(w.platforms, KeepPlatform),
               !.gems = SelectSeq(w.gems, KeepGem),
               !.enemies = SelectSeq(w.enemies, KeepEnemy),
               !.powerups = SelectSeq(w.powerups, KeepPowerup)]

Cleanup(w, cam) ==
  LET cleanupY == cam + CANVAS_HEIGHT + CULL_MARGIN
      KeepPlatform(p) == p.y < cleanupY
      KeepGem(gem) == gem.y < cleanupY /\ ~gem.collected
      KeepEnemy(e) == e.y < cleanupY
      KeepPowerup(pu) == pu.y < cleanupY /\ ~pu.collected
  IN [w EXCEPT !.platforms = SelectSeq(w.platforms, KeepPlatform),
               !.gems = SelectSeq(w.gems, KeepGem),
               !.enemies = SelectSeq(w.enemies, KeepEnemy),
               !.powerups = SelectSeq(w.powerups, KeepPowerup)]

FellOut(f, cam) == f.y > cam + CANVAS_HEIGHT + CULL_MARGIN

FALL_RESCUE_INVINCIBILITY == 60

\* Faulty variant: the rescue keeps the configuration.
FallCheck_KeepPower(f, cam) ==
  IF ~FellOut(f, cam) THEN [frog |-> f, over |-> FALSE, rescued |-> FALSE]
  ELSE IF hasPersistentPower(f) THEN
    [frog |-> [f EXCEPT
                 !.y = cam + CANVAS_HEIGHT \div 2,
                 !.vy = (JUMP_FORCE * 15) \div 10,
                 !.x = CANVAS_WIDTH \div 2 - FROG_WIDTH \div 2,
                 !.invincible = TRUE,
                 !.invincibleTimer = FALL_RESCUE_INVINCIBILITY,
                 !.flashTimer = FALL_RESCUE_INVINCIBILITY],
     over |-> FALSE, rescued |-> TRUE]
  ELSE [frog |-> f, over |-> TRUE, rescued |-> FALSE]

\* Faulty variant: an invincible frog does not die of a fall.
FallCheck_InvincibleSaved(f, cam) ==
  IF ~FellOut(f, cam) \/ (f.invincible /\ ~hasPersistentPower(f))
  THEN [frog |-> f, over |-> FALSE, rescued |-> FALSE]
  ELSE IF hasPersistentPower(f) THEN
    [frog |-> [clearAllPowers(f) EXCEPT
                 !.y = cam + CANVAS_HEIGHT \div 2,
                 !.vy = (JUMP_FORCE * 15) \div 10,
                 !.x = CANVAS_WIDTH \div 2 - FROG_WIDTH \div 2,
                 !.invincible = TRUE,
                 !.invincibleTimer = FALL_RESCUE_INVINCIBILITY,
                 !.flashTimer = FALL_RESCUE_INVINCIBILITY],
     over |-> FALSE, rescued |-> TRUE]
  ELSE [frog |-> f, over |-> TRUE, rescued |-> FALSE]

\* Fall death or fall-rescue: st = [frog, over, rescued]
FallCheck(f, cam) ==
  IF ~FellOut(f, cam) THEN [frog |-> f, over |-> FALSE, rescued |-> FALSE]
  ELSE IF hasPersistentPower(f) THEN
    [frog |-> [clearAllPowers(f) EXCEPT
                 !.y = cam + CANVAS_HEIGHT \div 2,
                 !.vy = (JUMP_FORCE * 15) \div 10,
                 !.x = CANVAS_WIDTH \div 2 - FROG_WIDTH \div 2,
                 !.invincible = TRUE,
                 !.invincibleTimer = FALL_RESCUE_INVINCIBILITY,
                 !.flashTimer = FALL_RESCUE_INVINCIBILITY],
     over |-> FALSE, rescued |-> TRUE]
  ELSE [frog |-> f, over |-> TRUE, rescued |-> FALSE]

\* ------------------------------------------------------------- state
VARIABLES
  frog,          \* g.frog
  platforms,     \* g.platforms, in creation order
  gems,          \* g.gems
  enemies,       \* g.enemies
  powerups,      \* g.powerups
  bullets,       \* g.bullets
  cameraY,       \* g.cameraY
  score,         \* g.score
  keys,          \* g.keys
  gameState,     \* the React state gameState
  gameStateRef,  \* gameStateRef.current, copied from gameState by an effect
  highScore,     \* the React state highScore
  ticks,         \* update calls so far (bounded by MaxTicks)
  runs,          \* runs started from the UI so far (bounded by MaxRuns)
  keyEvents,     \* key events so far (bounded by MaxKeyEvents)
  rnd,           \* explored random draws of this run (bounded by MaxRandom)
  lastTick       \* what the last update call did (history, read by no rule)

vars == <<frog, platforms, gems, enemies, powerups, bullets, cameraY, score, keys,
          gameState, gameStateRef, highScore, ticks, runs, keyEvents, rnd, lastTick>>

NoKeys == [left |-> FALSE, right |-> FALSE, shoot |-> FALSE]

\* The moving platforms and the enemies that stand in the reflection zone of
\* a side wall (x <= 0 or x + width >= CANVAS_WIDTH) after their horizontal
\* move of the tick, each with the velocity the move left it.
WallZone(ps, es) ==
  { [x |-> ps[i].x, vx |-> ps[i].vx, width |-> ps[i].width] :
      i \in { k \in 1..Len(ps) : /\ ps[k].type = "moving"
                                 /\ (ps[k].x <= 0 \/ ps[k].x + ps[k].width >= CANVAS_WIDTH) } }
  \cup
  { [x |-> es[i].x, vx |-> es[i].vx, width |-> ENEMY_SIZE] :
      i \in { k \in 1..Len(es) : es[k].x <= 0 \/ es[k].x + ENEMY_SIZE >= CANVAS_WIDTH } }

\* The record of a tick in which nothing has happened yet.
NoTick ==
  [ran |-> FALSE, contacts |-> <<>>, picked |-> <<>>, landings |-> <<>>,
   scores |-> <<>>, kills |-> 0, rescued |-> FALSE, fellOut |-> FALSE,
   preFrog |-> createFrog, generated |-> 0,
   preCam |-> 0, preState |-> "menu", moved |-> createFrog, landed |-> createFrog,
   fallFrog |-> createFrog, fallOver |-> FALSE, culled |-> 0, landedOn |-> <<>>,
   pickedFrog |-> createFrog, shotFrog |-> createFrog, armed |-> FALSE,
   enemiesIn |-> <<>>, bulletsPre |-> <<>>, bulletsIn |-> <<>>, hits |-> <<>>,
   enemiesShot |-> <<>>, preHigh |-> 0, crossed |-> {}, brokenPre |-> {},
   brokenMid |-> {}, gemsHit |-> <<>>, atWall |-> {}, preTop |-> 0]

\* ------------------------------------------------------------- initial states
\* (1) The component after mounting: the mount effect has run initGame and
\* the first gameLoop call returned at once, the menu is showing.
InitMounted ==
  \E w \in initGame :
    /\ frog = createFrog
    /\ platforms = w.platforms /\ gems = w.gems
    /\ enemies = w.enemies /\ powerups = w.powerups
    /\ rnd = 0
    /\ bullets = <<>> /\ cameraY = 0 /\ score = 0
    /\ keys = NoKeys
    /\ gameState = "menu" /\ gameStateRef = "menu"
    /\ highScore = 0

\* (2) A running game some way up, drawn from bounded sets: the camera at
\* -1000 pixels, a ladder of plain platforms from the leading margin to the
\* trailing one, the frog near the camera target with one of the power
\* configurations, and a few entities next to it.
RUN_CAMERA == Px(-1000)

\* power and its timer / hits / jumps / cooldown
InitConfigs ==
  { <<"none", 0>>, <<"rocket", 1>>, <<"rocket", 80>>, <<"propeller", 1>>,
    <<"propeller", 120>>, <<"cape", 0>>, <<"shield", 0>>, <<"shield", 1>>,
    <<"springShoes", 1>>, <<"springShoes", 5>>, <<"magnet", 1>>, <<"magnet", 180>>,
    <<"sumo", 1>>, <<"sumo", 75>>, <<"laser", 0>>, <<"shotgun", 0>>, <<"tommyGun", 0>> }

\* remaining invincibility frames (0: not invincible)
InitInvincible == {0, 1, 30}

ConfigFrog(f, c) ==
  LET p == c[1]
      n == c[2]
  IN CASE p = "rocket" -> [f EXCEPT !.hasRocket = TRUE, !.rocketTimer = n, !.vy = ROCKET_SPEED]
       [] p = "propeller" ->
            [f EXCEPT !.hasPropeller = TRUE, !.propellerTimer = n, !.vy = PROPELLER_SPEED]
       [] p = "cape" -> [f EXCEPT !.hasCape = TRUE, !.vy = Min(f.vy, CAPE_MAX_FALL_SPEED)]
       [] p = "shield" -> [f EXCEPT !.hasShield = TRUE, !.shieldHits = n]
       [] p = "springShoes" -> [f EXCEPT !.hasSpringShoes = TRUE, !.springShoesJumps = n]
       [] p = "magnet" -> [f EXCEPT !.hasMagnet = TRUE, !.magnetTimer = n]
       [] p = "sumo" -> [f EXCEPT !.hasSumo = TRUE, !.sumoTimer = n]
       [] p = "laser" -> [f EXCEPT !.hasLaser = TRUE, !.weaponCooldown = n]
       [] p = "shotgun" -> [f EXCEPT !.hasShotgun = TRUE, !.weaponCooldown = n]
       [] p = "tommyGun" -> [f EXCEPT !.hasTommyGun = TRUE, !.weaponCooldown = n]
       [] OTHER -> f

InvincibleFrog(f, n) ==
  IF n = 0 THEN f
  ELSE [f EXCEPT !.invincible = TRUE, !.invincibleTimer = n, !.flashTimer = n]

\* The frog's place: "mid" falls freely for some ticks, "landing" crosses
\* the top of the platform below it in the next tick, "bottom" leaves the
\* trailing margin in the next tick, "rising" is on its way up through the
\* camera's target line, "through" is on its way up with its feet in the
\* landing window of the platform below it.
FrogAt(pos, c) ==
  LET flightEnd == c[1] \in {"rocket", "propeller"} /\ c[2] = 1
      rel == CASE pos = "mid" -> IF flightEnd THEN Px(280) ELSE Px(283)
               [] pos = "landing" -> Px(298)
               [] pos = "rising" -> Px(285)
               [] pos = "through" -> Px(320)
               [] OTHER -> Px(799)
  IN [createFrog EXCEPT !.x = Px(170), !.y = RUN_CAMERA + rel,
                        !.vy = CASE pos = "bottom" -> 1000
                                 [] pos = "rising" -> 0 - 1000
                                 [] pos = "through" -> 0 - 1000
                                 [] OTHER -> 400]

LadderPlatform(k, type) ==
  [x |-> Px(160),
   y |-> IF k <= 3 THEN RUN_CAMERA + Px(790) - k * Px(140)
         ELSE RUN_CAMERA + Px(370) - (k - 3) * Px(115),
   width |-> Px(80),
   height |-> PLATFORM_HEIGHT, type |-> IF type = "broken" THEN "breakable" ELSE type,
   vx |-> 0, broken |-> type = "broken"]

\* nine platforms, oldest (lowest) first, 140 pixels apart up to the one under
\* the frog (k = 3, of the given type) and 115 pixels apart above it: the
\* topmost is 205 pixels above the camera, just past the generation margin
Ladder(type) == [i \in 1..9 |-> LadderPlatform(i - 1, IF i = 4 THEN type ELSE "normal")]

NearEnemyA == [x |-> Px(180), y |-> RUN_CAMERA + Px(300), vx |-> 150]
NearEnemyB == [x |-> Px(175), y |-> RUN_CAMERA + Px(310), vx |-> -150]
NearEnemyC == [x |-> Px(185), y |-> RUN_CAMERA + Px(295), vx |-> 150]
FarEnemy == [x |-> Px(300), y |-> RUN_CAMERA + Px(100), vx |-> 150]
\* an enemy whose top the rising frog's feet clip for one tick
GrazedEnemy == [x |-> Px(180), y |-> RUN_CAMERA + Px(330), vx |-> 150]

InitEnemySeqs ==
  { <<>>, <<NearEnemyA>>, <<FarEnemy>>, <<NearEnemyA, NearEnemyB>>,
    <<NearEnemyA, FarEnemy>>, <<FarEnemy, NearEnemyA>>,
    <<NearEnemyA, NearEnemyB, NearEnemyC>> }

NearPowerup(type) ==
  [x |-> Px(180), y |-> RUN_CAMERA + Px(300), type |-> type, collected |-> FALSE]

NearGem == [x |-> Px(185), y |-> RUN_CAMERA + Px(300), type |-> "orange", collected |-> FALSE]
SideGem == [x |-> Px(300), y |-> RUN_CAMERA + Px(300), type |-> "blue", collected |-> FALSE]
LowGem == [x |-> Px(175), y |-> RUN_CAMERA + Px(320), type |-> "purple", collected |-> FALSE]

\* The scenarios: what is next to the frog.
\*   contact : enemies, any configuration, invincible or not
\*   pickup  : one pickup, with or without an enemy; two pickups at once
\*   gems    : gems by the frog and in magnet range
\*   place   : the frog about to land (on each platform type, or on a
\*             breakable platform already broken) or to fall out
\*   fire    : a weapon with the fire key held, with and without targets,
\*             ready or one or two ticks into its cooldown
\*   graze   : the frog on its way up past an enemy
\*   through : the frog on its way up through a platform, in flight or not
InitScenarios ==
  { [pos |-> "mid", c |-> c, inv |-> n, es |-> es, pus |-> <<>>, gs |-> <<>>, under |-> "normal", keys |-> NoKeys] :
      c \in InitConfigs, n \in InitInvincible, es \in InitEnemySeqs }
  \cup
  { s \in { [pos |-> "mid", c |-> c, inv |-> 0, es |-> es, pus |-> <<NearPowerup(t)>>,
              gs |-> <<>>, under |-> "normal", keys |-> NoKeys] :
               c \in InitConfigs, t \in POWERUP_TYPES, es \in {<<>>, <<NearEnemyA>>} } :
      s.c[1] = "none" \/ s.es = <<>> }
  \cup
  { [pos |-> "mid", c |-> <<"none", 0>>, inv |-> 0, es |-> <<>>,
     pus |-> <<NearPowerup(t), NearPowerup(u)>>, gs |-> <<>>, under |-> "normal", keys |-> NoKeys] :
      t \in POWERUP_TYPES, u \in POWERUP_TYPES }
  \cup
  { [pos |-> "mid", c |-> c, inv |-> 0, es |-> es, pus |-> <<>>, gs |-> gs, under |-> "normal", keys |-> NoKeys] :
      c \in {<<"none", 0>>, <<"magnet", 180>>, <<"sumo", 75>>, <<"rocket", 80>>},
      es \in {<<>>, <<NearEnemyA>>},
      gs \in {<<NearGem>>, <<SideGem>>, <<NearGem, SideGem>>, <<NearGem, LowGem>>} }
  \cup
  { [pos |-> "landing", c |-> c, inv |-> 0, es |-> <<>>, pus |-> <<>>, gs |-> <<>>, under |-> u, keys |-> NoKeys] :
      c \in InitConfigs, u \in {"normal", "breakable", "spring"} }
  \cup
  { [pos |-> "bottom", c |-> c, inv |-> n, es |-> <<>>, pus |-> <<>>, gs |-> <<>>,
     under |-> "normal", keys |-> NoKeys] :
      c \in InitConfigs, n \in {0, 30} }
  \cup
  { [pos |-> "mid", c |-> c, inv |-> 0, es |-> es, pus |-> <<>>, gs |-> <<>>,
     under |-> "normal", keys |-> [NoKeys EXCEPT !.shoot = TRUE]] :
      c \in {<<"laser", 0>>, <<"shotgun", 0>>, <<"tommyGun", 0>>},
      es \in {<<>>, <<NearEnemyA>>, <<FarEnemy>>, <<NearEnemyA, NearEnemyB>>} }
  \cup
  { [pos |-> "mid", c |-> <<w, n>>, inv |-> 0, es |-> <<>>, pus |-> <<>>, gs |-> <<>>,
     under |-> "normal", keys |-> [NoKeys EXCEPT !.shoot = TRUE]] :
      w \in {"laser", "shotgun", "tommyGun"}, n \in {1, 2} }
  \cup
  { [pos |-> "through", c |-> c, inv |-> 0, es |-> <<>>, pus |-> <<>>, gs |-> <<>>,
     under |-> u, keys |-> NoKeys] :
      c \in {<<"none", 0>>, <<"rocket", 80>>, <<"propeller", 120>>, <<"springShoes", 5>>},
      u \in {"normal", "breakable"} }
  \cup
  { [pos |-> "landing", c |-> c, inv |-> 0, es |-> <<>>, pus |-> <<>>, gs |-> <<>>,
     under |-> "broken", keys |-> NoKeys] :
      c \in {<<"none", 0>>, <<"springShoes", 5>>, <<"cape", 0>>, <<"shield", 0>>} }
  \cup
  { [pos |-> "rising", c |-> <<"none", 0>>, inv |-> 0, es |-> es, pus |-> <<>>, gs |-> <<>>,
     under |-> "normal", keys |-> NoKeys] : es \in {<<>>, <<GrazedEnemy>>} }

InitRunning ==
  \E s \in InitScenarios :
    /\ frog = InvincibleFrog(ConfigFrog(FrogAt(s.pos, s.c), s.c), s.inv)
    /\ platforms = Ladder(s.under)
    /\ gems = s.gs /\ enemies = s.es /\ powerups = s.pus
    /\ rnd = 0
    /\ bullets = <<>> /\ cameraY = RUN_CAMERA /\ score = AltitudeScore(RUN_CAMERA)
    /\ keys = s.keys
    /\ gameState = "playing" /\ gameStateRef = "playing"
    /\ highScore = 0

\* (3) A run just started and left alone: the world of initGame, whose first
\* platform lies at the height of the start platform and may be of any type,
\* and the frog eleven ticks into its first fall, about to reach the two.  It
\* holds nothing, or the spring shoes of a pickup that lay on that platform.
FIRST_FALL_TICKS == 11

FirstFallFrog ==
  [createFrog EXCEPT !.vy = GRAVITY * FIRST_FALL_TICKS,
                     !.y = createFrog.y + GRAVITY * ((FIRST_FALL_TICKS * (FIRST_FALL_TICKS + 1)) \div 2)]

InitFirstFall ==
  \E w \in initGame, type \in {"normal", "breakable", "spring"},
     c \in {<<"none", 0>>, <<"springShoes", POWER_CONFIG.springShoes.jumps>>} :
    /\ frog = ConfigFrog(FirstFallFrog, c)
    /\ platforms = [w.platforms EXCEPT ![1].type = type]
    /\ gems = w.gems /\ enemies = w.enemies /\ powerups = w.powerups
    /\ rnd = 0
    /\ bullets = <<>> /\ cameraY = 0 /\ score = 0
    /\ keys = NoKeys
    /\ gameState = "playing" /\ gameStateRef = "playing"
    /\ highScore = 0

\* (4) A shotgun blast in flight: the frog fired 41 ticks ago from the "mid"
\* place with the camera at rest, so the cooldown of 40 has run out; the
\* middle pellet is about to leave the tracked band at the top, where an
\* enemy may stand that it has not reached yet.
VOLLEY_TICKS == 41

VolleyFrog == ConfigFrog(FrogAt("mid", <<"shotgun", 0>>), <<"shotgun", 0>>)

Volley ==
  [i \in 1..3 |->
     [ShotgunBullets(VolleyFrog)[i] EXCEPT
        !.x = @ + VOLLEY_TICKS * ShotgunBullets(VolleyFrog)[i].vx,
        !.y = @ + VOLLEY_TICKS * ShotgunBullets(VolleyFrog)[i].vy]]

TopEnemy == [x |-> Px(180), y |-> RUN_CAMERA - Px(140), vx |-> 150]

InitVolley ==
  \E es \in {<<>>, <<TopEnemy>>}, bs \in {Volley, SubSeq(Volley, 1, 2)} :
    /\ frog = VolleyFrog
    /\ platforms = Ladder("normal")
    /\ gems = <<>> /\ enemies = es /\ powerups = <<>>
    /\ rnd = 0
    /\ bullets = bs /\ cameraY = RUN_CAMERA /\ score = AltitudeScore(RUN_CAMERA)
    /\ keys = NoKeys
    /\ gameState = "playing" /\ gameStateRef = "playing"
    /\ highScore = 0

\* (5) A run at the moment something reaches a side wall.  An enemy just
\* spawned at the left end of its range (x = 0, heading left), or one spawned
\* at x = 170 heading right, 123 ticks later; a moving platform spawned at
\* x = 20 with speed 2.5 to the left, 7 ticks later, or on its way back at the
\* right wall.
SpawnedAtWall == [x |-> 0, y |-> RUN_CAMERA + Px(100), vx |-> -150]
RightWallEnemy == [x |-> Px(170) + 123 * 150, y |-> RUN_CAMERA + Px(100), vx |-> 150]

WallPlatform(x, vx) ==
  [LadderPlatform(8, "moving") EXCEPT !.x = x, !.vx = vx, !.width = Px(70)]

WallPlatforms ==
  { WallPlatform(Px(20) - 7 * 250, -250), WallPlatform(Px(330) - 250, 250) }

InitWalls ==
  \E es \in {<<>>, <<SpawnedAtWall>>, <<RightWallEnemy>>},
     ps \in {Ladder("normal")} \cup { [Ladder("normal") EXCEPT ![9] = p] : p \in WallPlatforms } :
    /\ es # <<>> \/ ps # Ladder("normal")
    /\ frog = FrogAt("mid", <<"none", 0>>)
    /\ platforms = ps
    /\ gems = <<>> /\ enemies = es /\ powerups = <<>>
    /\ rnd = 0
    /\ bullets = <<>> /\ cameraY = RUN_CAMERA /\ score = AltitudeScore(RUN_CAMERA)
    /\ keys = NoKeys
    /\ gameState = "playing" /\ gameStateRef = "playing"
    /\ highScore = 0

Init ==
  /\ InitMounted \/ InitRunning \/ InitFirstFall \/ InitVolley \/ InitWalls
  /\ ticks = 0 /\ runs = 0 /\ keyEvents = 0
  /\ lastTick = NoTick

\* ------------------------------------------------------------- update
\* One call of update().  Each phase is bound once to its result (a choice
\* from a singleton), in the order of the code.
\* Faulty variant: the camera and the altitude score are updated last, after
\* the resolution, the generation, the cleanup and the fall test of the tick.
Update_CameraLast ==
  /\ gameStateRef = "playing"
  /\ ticks < MaxTicks
  /\ \E f1 \in {Movement(frog, keys)} :
     \E cam \in {cameraY} :
     \E sc1 \in {score} :
     \E land \in {PlatformCollision(f1, platforms)} :
     \E ps1 \in {MovingPlatforms(land.platforms)} :
     \E gs1 \in {MagnetAttraction(land.frog, gems)} :
     \E sc2 \in {sc1 + GemScore(land.frog, gs1, 1)} :
     \E gs2 \in {GemCollection(land.frog, gs1)} :
     \E pick \in {PowerupCollection(land.frog, powerups)} :
     \E spread \in IF CanShoot(pick.frog, keys) /\ pick.frog.hasTommyGun
                  THEN TommySpreads ELSE {0} :
     \E shot \in {Shooting(pick.frog, enemies, bullets, keys, spread)} :
     \E shots \in {UpdateBullets(shot.bullets, enemies, sc2, cam)} :
     \E hit \in {EnemyCollision(shot.frog, shots.enemies, shots.score)} :
     \E w \in GeneratePlatforms([platforms |-> ps1, gems |-> gs2,
                                 enemies |-> hit.enemies,
                                 powerups |-> pick.powerups, rnd |-> rnd], cam) :
     \E kept \in {Cleanup(w, cam)} :
     \E fall \in {FallCheck(hit.frog, cam)} :
     \E over \in {hit.over \/ fall.over} :
              /\ frog' = fall.frog
              /\ platforms' = kept.platforms
              /\ gems' = kept.gems
              /\ enemies' = kept.enemies
              /\ powerups' = kept.powerups
              /\ rnd' = kept.rnd
              /\ bullets' = shots.bullets
              /\ cameraY' = CameraFollow(fall.frog, cameraY)
              /\ score' = ScoreFollow(fall.frog, cameraY, hit.score)
              /\ gameState' = IF over THEN "gameover" ELSE gameState
              /\ highScore' = IF over THEN Max(highScore, hit.score) ELSE highScore
              /\ ticks' = ticks + 1
              /\ lastTick' = [ran |-> TRUE,
                              contacts |-> hit.contacts,
                              picked |-> pick.picked,
                              landings |-> land.landings,
                              scores |-> <<score, sc1, sc2, shots.score,
                                          ScoreFollow(fall.frog, cameraY, hit.score)>>,
                              kills |-> shots.kills,
                              rescued |-> fall.rescued,
                              fellOut |-> FellOut(hit.frog, cam),
                              preFrog |-> frog,
                              generated |-> Len(w.platforms) - Len(ps1),
                              preCam |-> cameraY,
                              preState |-> gameState,
                              moved |-> f1,
                              landed |-> land.frog,
                              fallFrog |-> hit.frog,
                              fallOver |-> fall.over,
                              culled |-> Len(w.platforms) - Len(kept.platforms),
                              landedOn |-> [k \in 1..Len(land.landings) |->
                                              land.platforms[land.landings[k]]],
                              pickedFrog |-> pick.frog, shotFrog |-> shot.frog,
                              armed |-> keys.shoot /\ hasWeapon(pick.frog), enemiesIn |-> enemies,
                              bulletsPre |-> bullets, bulletsIn |-> shot.bullets,
                              hits |-> shots.hits, enemiesShot |-> shots.enemies,
                              preHigh |-> highScore,
                              crossed |-> { i \in 1..Len(platforms) : LandingTest(f1, platforms[i]) },
                              brokenPre |-> { platforms[i] : i \in { k \in 1..Len(platforms) : platforms[k].broken } },
                              brokenMid |-> { ps1[i] : i \in { k \in 1..Len(ps1) : ps1[k].broken } },
                              gemsHit |-> HitGems(land.frog, gs1, 1),
                              atWall |-> WallZone(ps1, hit.enemies),
                              preTop |-> highestPlatform(ps1)]
              /\ UNCHANGED <<keys, gameStateRef, runs, keyEvents>>

\* One call of update while the run is playing.  The tommy gun's spread and
\* the generation's draws are the random inputs.
Update ==
  /\ gameStateRef = "playing"
  /\ ticks < MaxTicks
  /\ \E f1 \in {Movement(frog, keys)} :
     \E cam \in {CameraFollow(f1, cameraY)} :
     \E sc1 \in {ScoreFollow(f1, cameraY, score)} :
     \E land \in {PlatformCollision(f1, platforms)} :
     \E ps1 \in {MovingPlatforms(land.platforms)} :
     \E gs1 \in {MagnetAttraction(land.frog, gems)} :
     \E sc2 \in {sc1 + GemScore(land.frog, gs1, 1)} :
     \E gs2 \in {GemCollection(land.frog, gs1)} :
     \E pick \in {PowerupCollection(land.frog, powerups)} :
     \E spread \in IF CanShoot(pick.frog, keys) /\ pick.frog.hasTommyGun
                  THEN TommySpreads ELSE {0} :
     \E shot \in {Shooting(pick.frog, enemies, bullets, keys, spread)} :
     \E shots \in {UpdateBullets(shot.bullets, enemies, sc2, cam)} :
     \E hit \in {EnemyCollision(shot.frog, shots.enemies, shots.score)} :
     \E w \in GeneratePlatforms([platforms |-> ps1, gems |-> gs2,
                                 enemies |-> hit.enemies,
                                 powerups |-> pick.powerups, rnd |-> rnd], cam) :
     \E kept \in {Cleanup(w, cam)} :
     \E fall \in {FallCheck(hit.frog, cam)} :
     \E over \in {hit.over \/ fall.over} :
              /\ frog' = fall.frog
              /\ platforms' = kept.platforms
              /\ gems' = kept.gems
              /\ enemies' = kept.enemies
              /\ powerups' = kept.powerups
              /\ rnd' = kept.rnd
              /\ bullets' = shots.bullets
              /\ cameraY' = cam
              /\ score' = hit.score
              /\ gameState' = IF over THEN "gameover" ELSE gameState
              /\ highScore' = IF over THEN Max(highScore, hit.score) ELSE highScore
              /\ ticks' = ticks + 1
              /\ lastTick' = [ran |-> TRUE,
                              contacts |-> hit.contacts,
                              picked |-> pick.picked,
                              landings |-> land.landings,
                              scores |-> <<score, sc1, sc2, shots.score, hit.score>>,
                              kills |-> shots.kills,
                              rescued |-> fall.rescued,
                              fellOut |-> FellOut(hit.frog, cam),
                              preFrog |-> frog,
                              generated |-> Len(w.platforms) - Len(ps1),
                              preCam |-> cameraY,
                              preState |-> gameState,
                              moved |-> f1,
                              landed |-> land.frog,
                              fallFrog |-> hit.frog,
                              fallOver |-> fall.over,
                              culled |-> Len(w.platforms) - Len(kept.platforms),
                              landedOn |-> [k \in 1..Len(land.landings) |->
                                              land.platforms[land.landings[k]]],
                              pickedFrog |-> pick.frog, shotFrog |-> shot.frog,
                              armed |-> keys.shoot /\ hasWeapon(pick.frog), enemiesIn |-> enemies,
                              bulletsPre |-> bullets, bulletsIn |-> shot.bullets,
                              hits |-> shots.hits, enemiesShot |-> shots.enemies,
                              preHigh |-> highScore,
                              crossed |-> { i \in 1..Len(platforms) : LandingTest(f1, platforms[i]) },
                              brokenPre |-> { platforms[i] : i \in { k \in 1..Len(platforms) : platforms[k].broken } },
                              brokenMid |-> { ps1[i] : i \in { k \in 1..Len(ps1) : ps1[k].broken } },
                              gemsHit |-> HitGems(land.frog, gs1, 1),
                              atWall |-> WallZone(ps1, hit.enemies),
                              preTop |-> highestPlatform(ps1)]
              /\ UNCHANGED <<keys, gameStateRef, runs, keyEvents>>

\* ------------------------------------------------------------- run state
\* The effect that copies gameState into gameStateRef after a render.
SyncGameStateRef ==
  /\ gameStateRef # gameState
  /\ gameStateRef' = gameState
  /\ UNCHANGED <<frog, platforms, gems, enemies, powerups, bullets, cameraY, score, keys,
                 gameState, highScore, ticks, runs, keyEvents, rnd, lastTick>>

\* initGame(); setGameState('playing').  A run is started only while update
\* calls remain to be explored in it.
\* Faulty variant: the new run keeps the projectiles and the score of the old.
StartRun_KeepOldRun ==
  /\ runs < MaxRuns
  /\ ticks < MaxTicks
  /\ \E w \in initGame :
       /\ frog' = createFrog
       /\ platforms' = w.platforms /\ gems' = w.gems
       /\ enemies' = w.enemies /\ powerups' = w.powerups
       /\ rnd' = 0
  /\ cameraY' = 0
  /\ gameState' = "playing"
  /\ runs' = runs + 1
  /\ lastTick' = NoTick
  /\ UNCHANGED <<keys, gameStateRef, highScore, ticks, keyEvents, bullets, score>>

StartRun ==
  /\ runs < MaxRuns
  /\ ticks < MaxTicks
  /\ \E w \in initGame :
       /\ frog' = createFrog
       /\ platforms' = w.platforms /\ gems' = w.gems
       /\ enemies' = w.enemies /\ powerups' = w.powerups
       /\ rnd' = 0
  /\ bullets' = <<>> /\ cameraY' = 0 /\ score' = 0
  /\ gameState' = "playing"
  /\ runs' = runs + 1
  /\ lastTick' = NoTick
  /\ UNCHANGED <<keys, gameStateRef, highScore, ticks, keyEvents>>

\* Space or Enter while the ref says the game is not playing
StartGameKey == gameStateRef # "playing" /\ StartRun

\* The play button of the menu and the play-again button of the game-over
\* screen, rendered from gameState
StartGameClick == gameState \in {"menu", "gameover"} /\ StartRun

\* handleKeyDown for the arrow keys and, while playing, the space bar
KeyDown ==
  /\ keyEvents < MaxKeyEvents
  /\ \E k \in {"left", "right", "shoot"} :
       /\ k = "shoot" => gameStateRef = "playing"
       /\ ~keys[k]
       /\ keys' = [keys EXCEPT ![k] = TRUE]
  /\ keyEvents' = keyEvents + 1
  /\ UNCHANGED <<frog, platforms, gems, enemies, powerups, bullets, cameraY, score,
                 gameState, gameStateRef, highScore, ticks, runs, rnd, lastTick>>

\* handleKeyUp
KeyUp ==
  /\ keyEvents < MaxKeyEvents
  /\ \E k \in {"left", "right", "shoot"} :
       /\ keys[k]
       /\ keys' = [keys EXCEPT ![k] = FALSE]
  /\ keyEvents' = keyEvents + 1
  /\ UNCHANGED <<frog, platforms, gems, enemies, powerups, bullets, cameraY, score,
                 gameState, gameStateRef, highScore, ticks, runs, rnd, lastTick>>

Next ==
  \/ Update
  \/ SyncGameStateRef
  \/ StartGameKey
  \/ StartGameClick
  \/ KeyDown
  \/ KeyUp

Spec == Init /\ [][Next]_vars

\* ------------------------------------------------------------- properties
Contacts == lastTick.contacts

ActivePowers(f) ==
  { p \in {"rocket", "propeller", "cape", "shield", "springShoes", "magnet", "sumo",
           "laser", "shotgun", "tommyGun"} :
      CASE p = "rocket" -> f.hasRocket
        [] p = "propeller" -> f.hasPropeller
        [] p = "cape" -> f.hasCape
        [] p = "shield" -> f.hasShield
        [] p = "springShoes" -> f.hasSpringShoes
        [] p = "magnet" -> f.hasMagnet
        [] p = "sumo" -> f.hasSumo
        [] p = "laser" -> f.hasLaser
        [] p = "shotgun" -> f.hasShotgun
        [] OTHER -> f.hasTommyGun }

\* every timer and counter of the power configuration is zero
TimersZero(f) ==
  /\ f.rocketTimer = 0 /\ f.propellerTimer = 0 /\ f.magnetTimer = 0 /\ f.sumoTimer = 0
  /\ f.springShoesJumps = 0 /\ f.shieldHits = 0 /\ f.weaponCooldown = 0

\* the contact did not end the run
NotEndedBy(c) == c.ended = c.preOver

\* C1: within one run the score never decreases: in every update call the
\* score after the camera step, after the gem collection, after the bullet
\* kills and after the enemy contacts is at least the score before that step,
\* every single contact leaves the score at least as it found it, and the
\* score the tick leaves is the last of them.
C1_ScoreNeverDecreases ==
  lastTick.ran =>
    /\ \A i \in 1..4 : lastTick.scores[i] <= lastTick.scores[i + 1]
    /\ \A i \in 1..Len(Contacts) : Contacts[i].preScore <= Contacts[i].postScore
    /\ score = lastTick.scores[5]

\* a tick that scored a gem and a sumo kill, after an earlier gain
C1_Witness ==
  /\ lastTick.ran
  /\ lastTick.scores[3] > lastTick.scores[2]
  /\ lastTick.scores[5] > lastTick.scores[4]

\* C2: at most one ability flag is true in every state: after initGame and
\* after every tick, whatever was picked up, hit, expired or fallen.
C2_AtMostOnePower == Cardinality(ActivePowers(frog)) <= 1

\* a tick that collected two different pickups at once over a held power
C2_Witness ==
  /\ lastTick.ran
  /\ Len(lastTick.picked) = 2
  /\ lastTick.picked[1] # lastTick.picked[2]
  /\ Cardinality(ActivePowers(frog)) = 1

\* C3: a contact found with no configuration and no invincibility ends the
\* run: the run state is game over after that tick.
C3_NoPowerContactEndsRun ==
  \A i \in 1..Len(Contacts) :
    (~hasAnyPower(Contacts[i].pre) /\ ~Contacts[i].pre.invincible) =>
      Contacts[i].ended /\ gameState = "gameover"

C3_Witness ==
  /\ Len(Contacts) > 0
  /\ ~hasAnyPower(Contacts[1].pre) /\ ~Contacts[1].pre.invincible
  /\ gameState = "gameover"

\* C4: a contact found while the frog is invincible does nothing: the enemy
\* stays, the frog (configuration, vy) and the score are unchanged and the
\* run is not ended by it.
C4_InvincibleSkipsContact ==
  \A i \in 1..Len(Contacts) :
    Contacts[i].pre.invincible =>
      /\ ~Contacts[i].removed
      /\ Contacts[i].post = Contacts[i].pre
      /\ Contacts[i].postScore = Contacts[i].preScore
      /\ NotEndedBy(Contacts[i])

\* an overlap while invincible, with a configuration held
C4_Witness ==
  \E i \in 1..Len(Contacts) :
    Contacts[i].pre.invincible /\ hasAnyPower(Contacts[i].pre)

\* C5: a contact with shield held, no hit absorbed yet and no invincibility
\* removes the enemy and only counts the hit; after a tick with that single
\* contact the frog still holds the shield with one hit, not invincible.
C5_ShieldAbsorbsFirstHit ==
  /\ \A i \in 1..Len(Contacts) :
       LET c == Contacts[i]
       IN (c.pre.hasShield /\ c.pre.shieldHits = 0 /\ ~c.pre.invincible) =>
            /\ c.removed
            /\ c.post = [c.pre EXCEPT !.shieldHits = 1]
            /\ NotEndedBy(c)
  /\ (Len(Contacts) = 1 /\ Contacts[1].pre.hasShield /\ Contacts[1].pre.shieldHits = 0
        /\ ~Contacts[1].pre.invincible /\ ~lastTick.rescued) =>
       frog.hasShield /\ frog.shieldHits = 1 /\ ~frog.invincible

C5_Witness ==
  /\ Len(Contacts) = 1
  /\ Contacts[1].pre.hasShield /\ Contacts[1].pre.shieldHits = 0
  /\ ~Contacts[1].pre.invincible
  /\ frog.hasShield /\ frog.shieldHits = 1

\* C6: a contact with shield held, one hit absorbed (maximum - 1) and no
\* invincibility removes the enemy, clears the shield (no configuration,
\* zero hits) and grants invincibility with a non-zero timer; the run is not
\* ended by it.
C6_ShieldBreaksOnSecondHit ==
  \A i \in 1..Len(Contacts) :
    LET c == Contacts[i]
    IN (c.pre.hasShield /\ c.pre.shieldHits = POWER_CONFIG.shield.maxHits - 1
          /\ ~c.pre.invincible) =>
         /\ c.removed
         /\ ~hasAnyPower(c.post) /\ c.post.shieldHits = 0
         /\ c.post.invincible /\ c.post.invincibleTimer > 0
         /\ NotEndedBy(c)

C6_Witness ==
  \E i \in 1..Len(Contacts) :
    /\ Contacts[i].pre.hasShield /\ Contacts[i].pre.shieldHits = 1
    /\ ~Contacts[i].pre.invincible
    /\ Contacts[i].post.invincible

\* C7: a contact with sumo active and no invincibility removes the enemy,
\* sets vy to SUMO_BOUNCE_FORCE, adds 100 to the score and changes nothing
\* else of the frog (sumo and its timer stay, invincible stays false).
C7_SumoBounceKill ==
  \A i \in 1..Len(Contacts) :
    LET c == Contacts[i]
    IN (c.pre.hasSumo /\ ~c.pre.invincible) =>
         /\ c.removed
         /\ c.post = [c.pre EXCEPT !.vy = SUMO_BOUNCE_FORCE]
         /\ c.post.hasSumo /\ c.post.sumoTimer = c.pre.sumoTimer /\ ~c.post.invincible
         /\ c.postScore = c.preScore + 100
         /\ NotEndedBy(c)

C7_Witness ==
  \E i \in 1..Len(Contacts) :
    /\ Contacts[i].pre.hasSumo /\ ~Contacts[i].pre.invincible
    /\ Contacts[i].pre.vy # SUMO_BOUNCE_FORCE
    /\ Contacts[i].post.vy = SUMO_BOUNCE_FORCE

\* C8: a contact with rocket or propeller active and no invincibility only
\* removes the enemy: the frog (configuration, timer, vy, invincible) and the
\* score are unchanged and the run is not ended by it.
C8_FlightOnlyRemovesEnemy ==
  \A i \in 1..Len(Contacts) :
    LET c == Contacts[i]
    IN ((c.pre.hasRocket \/ c.pre.hasPropeller) /\ ~c.pre.invincible) =>
         /\ c.removed
         /\ c.post = c.pre
         /\ c.postScore = c.preScore
         /\ NotEndedBy(c)

C8_Witness ==
  /\ \E i \in 1..Len(Contacts) : Contacts[i].pre.hasRocket /\ Contacts[i].removed
  /\ frog.hasRocket

\* C9: a contact with cape, springShoes, magnet, laser, shotgun or tommyGun
\* held and no invincibility clears the configuration entirely (no flag,
\* every timer and counter zero), removes the enemy and grants
\* INVINCIBILITY_DURATION frames of invincibility; the run is not ended by it.
C9_OtherPowerLostOnHit ==
  \A i \in 1..Len(Contacts) :
    LET c == Contacts[i]
    IN (ActivePowers(c.pre) \cap
          {"cape", "springShoes", "magnet", "laser", "shotgun", "tommyGun"} # {}
        /\ ActivePowers(c.pre) \cap {"sumo", "shield", "rocket", "propeller"} = {}
        /\ ~c.pre.invincible) =>
         /\ c.removed
         /\ ~hasAnyPower(c.post) /\ TimersZero(c.post)
         /\ c.post.invincible /\ c.post.invincibleTimer = INVINCIBILITY_DURATION
         /\ c.post.invincibleTimer > 0
         /\ NotEndedBy(c)

C9_Witness ==
  \E i \in 1..Len(Contacts) :
    /\ Contacts[i].pre.hasSpringShoes /\ Contacts[i].pre.springShoesJumps > 0
    /\ ~Contacts[i].pre.invincible
    /\ Contacts[i].post.invincibleTimer = INVINCIBILITY_DURATION

\* C10: Mario-style protection: no contact found while a configuration is
\* active ends the run, and when the first contact of a tick finds a
\* configuration active no contact of that tick ends it, however many
\* enemies overlap the frog; a contact that ends the run found no
\* configuration and no invincibility.
C10_MarioStyleProtection ==
  /\ \A i \in 1..Len(Contacts) :
       /\ hasAnyPower(Contacts[i].pre) => NotEndedBy(Contacts[i])
       /\ (Contacts[i].ended /\ ~Contacts[i].preOver) =>
            ~hasAnyPower(Contacts[i].pre) /\ ~Contacts[i].pre.invincible
  /\ (Len(Contacts) > 0 /\ hasAnyPower(Contacts[1].pre)) =>
       \A i \in 1..Len(Contacts) : ~Contacts[i].ended

\* three enemies on a frog with a fresh shield: absorbed, broken, skipped
C10_Witness ==
  /\ Len(Contacts) = 3
  /\ Contacts[1].pre.hasShield /\ Contacts[1].pre.shieldHits = 0
  /\ ~Contacts[1].pre.invincible
  /\ Contacts[3].pre.invincible
  /\ gameState = "playing"

\* C11: fall rescue: a tick whose fall test finds the frog below
\* cameraY + CANVAS_HEIGHT + 100 with a persistent configuration (cape,
\* shield, laser, shotgun, tommyGun) puts the frog inside the visible band,
\* clears the configuration, makes the frog invincible with a non-zero timer
\* and does not end the run: the run state is what it was before the tick.
C11_FallRescue ==
  (lastTick.ran /\ lastTick.fellOut /\ hasPersistentPower(lastTick.fallFrog)) =>
    /\ lastTick.rescued
    /\ cameraY <= frog.y /\ frog.y <= cameraY + CANVAS_HEIGHT
    /\ ~hasAnyPower(frog) /\ TimersZero(frog)
    /\ frog.invincible /\ frog.invincibleTimer > 0
    /\ ~lastTick.fallOver
    /\ gameState = lastTick.preState

\* a frog gliding on its cape fell out and was put back, the run goes on
C11_Witness ==
  /\ lastTick.ran /\ lastTick.fellOut /\ lastTick.fallFrog.hasCape
  /\ lastTick.rescued /\ gameState = "playing"
  /\ frog.y = cameraY + CANVAS_HEIGHT \div 2

\* C12: a tick whose fall test finds the frog below cameraY + CANVAS_HEIGHT +
\* 100 with no persistent configuration (none, or magnet, sumo, springShoes)
\* ends the run and leaves the frog where it fell, invincible or not.
C12_FallEndsRun ==
  (lastTick.ran /\ lastTick.fellOut /\ ~hasPersistentPower(lastTick.fallFrog)) =>
    /\ lastTick.fallOver /\ gameState = "gameover"
    /\ ~lastTick.rescued
    /\ frog = lastTick.fallFrog

\* an invincible frog with the magnet fell out and the run ended
C12_Witness ==
  /\ lastTick.ran /\ lastTick.fellOut
  /\ lastTick.fallFrog.hasMagnet /\ lastTick.fallFrog.invincible
  /\ gameState = "gameover"

\* C13: world generation invariant: after initGame and after every tick the
\* topmost (minimum y) platform is at or above cameraY - 200, whatever the
\* speed of the ascent.
C13_WorldAheadOfCamera ==
  /\ Len(platforms) > 0
  /\ highestPlatform(platforms) <= cameraY - GENERATION_MARGIN

\* a tick in which the camera rose and a platform had to be generated
C13_Witness ==
  /\ lastTick.ran /\ lastTick.generated > 0
  /\ cameraY < lastTick.preCam
  /\ highestPlatform(platforms) <= cameraY - GENERATION_MARGIN

\* the flag and the frame counter of each timed configuration
TimedPower(f) ==
  [rocket |-> [on |-> f.hasRocket, timer |-> f.rocketTimer],
   propeller |-> [on |-> f.hasPropeller, timer |-> f.propellerTimer],
   magnet |-> [on |-> f.hasMagnet, timer |-> f.magnetTimer],
   sumo |-> [on |-> f.hasSumo, timer |-> f.sumoTimer]]

TimedPowerNames == {"rocket", "propeller", "magnet", "sumo"}

\* C14: for each timed configuration (rocket 90, propeller 150, magnet 360,
\* sumo 150 frames at pickup): the counter is never negative and the flag is
\* never true with counter 0; the timer phase of a tick that finds it active
\* takes exactly 1 off the counter and leaves it active exactly when the
\* counter is still above 0; a pickup of the tick sets the full duration.
C14_TimedPowerCountdown ==
  \A p \in TimedPowerNames :
    /\ TimedPower(frog)[p].timer >= 0
    /\ TimedPower(frog)[p].on => TimedPower(frog)[p].timer > 0
    /\ lastTick.ran =>
         LET pre == TimedPower(lastTick.preFrog)[p]
             mov == TimedPower(lastTick.moved)[p]
             end == TimedPower(frog)[p]
         IN /\ mov.timer >= 0
            /\ pre.on => /\ mov.timer = pre.timer - 1
                         /\ mov.on = (mov.timer > 0)
            /\ ~pre.on => mov = pre
            /\ (pre.on /\ end.on /\ lastTick.picked = <<>>) => end.timer = pre.timer - 1
            /\ (lastTick.picked # <<>> /\ lastTick.picked[Len(lastTick.picked)] = p
                  /\ Contacts = <<>>) =>
                 end.on /\ end.timer = POWER_CONFIG[p].duration

\* the rocket ran out in this tick: counter from 1 to 0, back to none
C14_Witness ==
  /\ lastTick.ran
  /\ lastTick.preFrog.hasRocket /\ lastTick.preFrog.rocketTimer = 1
  /\ ~frog.hasRocket /\ frog.rocketTimer = 0 /\ ~hasAnyPower(frog)

\* the spring shoes and their jump counter
Shoes(f) == [on |-> f.hasSpringShoes, jumps |-> f.springShoesJumps]

\* C15: the jump counter of the spring shoes is never negative and the shoes
\* are held exactly while it is above 0; the movement phase of a tick leaves
\* it alone, a tick with no landing leaves it alone (unless a pickup, a hit
\* or a rescue of that tick clears or renews the configuration), and a tick
\* with a landing under the shoes takes it down.
C15_ShoesWearOnLandingOnly ==
  /\ frog.springShoesJumps >= 0
  /\ frog.hasSpringShoes => frog.springShoesJumps > 0
  /\ lastTick.ran =>
       /\ Shoes(lastTick.moved) = Shoes(lastTick.preFrog)
       /\ lastTick.landings = <<>> => Shoes(lastTick.landed) = Shoes(lastTick.preFrog)
       /\ (lastTick.landings # <<>> /\ lastTick.preFrog.hasSpringShoes) =>
            /\ lastTick.landed.springShoesJumps < lastTick.preFrog.springShoesJumps
            /\ lastTick.landed.springShoesJumps >= 0
            /\ lastTick.landed.hasSpringShoes = (lastTick.landed.springShoesJumps > 0)
       /\ (lastTick.landings = <<>> /\ lastTick.picked = <<>> /\ Contacts = <<>>
             /\ ~lastTick.rescued) =>
            Shoes(frog) = Shoes(lastTick.preFrog)

\* a tick in the air with the shoes on: the counter is what it was
C15_Witness ==
  /\ lastTick.ran /\ lastTick.landings = <<>>
  /\ lastTick.preFrog.hasSpringShoes /\ frog.hasSpringShoes
  /\ frog.springShoesJumps = lastTick.preFrog.springShoesJumps
  /\ frog.y # lastTick.preFrog.y

\* C16: at most one platform landing is resolved per tick, even when several
\* platforms pass the landing test (the two platforms initGame creates at
\* y = 600).
C16_SingleLandingPerTick == lastTick.ran => Len(lastTick.landings) <= 1

\* the bonuses (gems, bullet kills, sumo kills) of the last tick
TickBonus == lastTick.scores[5] - lastTick.scores[2]

\* C17 as stated: the camera and the altitude score are updated last, after
\* the resolution, the generation and the cull: the score a tick leaves is
\* the score before it plus the tick's bonuses, raised to the altitude of the
\* new camera when the camera moved.
C17_CameraAfterResolution ==
  lastTick.ran =>
    score = IF cameraY < lastTick.preCam
            THEN Max(lastTick.scores[1] + TickBonus, AltitudeScore(cameraY))
            ELSE lastTick.scores[1] + TickBonus

\* C17 amended: within one tick the order is integration, camera and
\* altitude score, resolution (platforms, gems, pickups, bullets, enemies),
\* generation and cleanup, fall test.  The camera is taken from the frog as
\* integrated; the altitude score is applied before the bonuses of the tick,
\* which are added on top of it; generation, cleanup and the fall test use
\* the camera of this tick.
C17_CameraBeforeResolution ==
  lastTick.ran =>
    /\ cameraY = Min(lastTick.preCam, CameraTarget(lastTick.moved))
    /\ lastTick.scores[2] = IF cameraY < lastTick.preCam
                            THEN Max(lastTick.scores[1], AltitudeScore(cameraY))
                            ELSE lastTick.scores[1]
    /\ score = lastTick.scores[2] + TickBonus
    /\ TickBonus = (lastTick.scores[3] - lastTick.scores[2]) + 25 * lastTick.kills
                     + 100 * Cardinality({i \in 1..Len(Contacts) :
                                            Contacts[i].pre.hasSumo /\ Contacts[i].removed})
    /\ highestPlatform(platforms) <= cameraY - GENERATION_MARGIN
    /\ \A i \in 1..Len(platforms) : platforms[i].y < cameraY + CANVAS_HEIGHT + CULL_MARGIN
    /\ lastTick.fellOut = (lastTick.fallFrog.y > cameraY + CANVAS_HEIGHT + CULL_MARGIN)

\* a tick in which the camera rose, the altitude raised the score and a gem
\* was scored on top of it
C17_Witness ==
  /\ lastTick.ran
  /\ cameraY < lastTick.preCam
  /\ lastTick.scores[2] > lastTick.scores[1]
  /\ lastTick.scores[3] > lastTick.scores[2]
  /\ score = AltitudeScore(cameraY) + TickBonus

\* C18: within a run the camera only ascends: a tick never leaves cameraY
\* larger than it found it, and replaces it by frog.y - 0.4 * CANVAS_HEIGHT
\* only when that target is strictly smaller; so too on a tick with a fall
\* or a fall rescue.
C18_CameraOnlyAscends ==
  lastTick.ran =>
    /\ cameraY <= lastTick.preCam
    /\ cameraY = IF lastTick.moved.y - (CANVAS_HEIGHT * 4) \div 10 < lastTick.preCam
                 THEN lastTick.moved.y - (CANVAS_HEIGHT * 4) \div 10
                 ELSE lastTick.preCam

\* a tick with a fall rescue: the frog was put back, the camera stayed
C18_Witness ==
  /\ lastTick.ran /\ lastTick.rescued
  /\ cameraY = lastTick.preCam
  /\ frog.y < lastTick.fallFrog.y

\* the trailing edge of the world: what lies at or below it is culled
TrailingEdge == cameraY + CANVAS_HEIGHT + CULL_MARGIN

\* C19: cull rule, position and collected flag: after every tick no platform,
\* gem, enemy or pickup of the collections lies at or below cameraY +
\* CANVAS_HEIGHT + 100, and no gem or pickup of the collections is collected.
C19_CullByPositionAndCollected ==
  lastTick.ran =>
    /\ \A i \in 1..Len(platforms) : platforms[i].y < TrailingEdge
    /\ \A i \in 1..Len(gems) : gems[i].y < TrailingEdge /\ ~gems[i].collected
    /\ \A i \in 1..Len(enemies) : enemies[i].y < TrailingEdge
    /\ \A i \in 1..Len(powerups) : powerups[i].y < TrailingEdge /\ ~powerups[i].collected

\* a tick that scored a gem and left a platform behind: both are gone
C19_Witness ==
  /\ lastTick.ran
  /\ lastTick.culled > 0
  /\ lastTick.scores[3] > lastTick.scores[2]
  /\ gems = <<>>

\* C20 as stated: a platform whose broken flag is set is removed by the cull
\* of the same tick: after every tick no platform of the collection is broken.
C20_NoBrokenPlatformKept ==
  lastTick.ran => \A i \in 1..Len(platforms) : ~platforms[i].broken

\* C20 amended: the cull of platforms goes by position alone.  A breakable
\* platform landed on is marked broken and stays in the collection, as
\* marked, while it lies above the trailing edge; a broken platform of the
\* collection is a breakable one above the trailing edge.
C20_BrokenKeptUntilScrolledOff ==
  lastTick.ran =>
    /\ \A k \in 1..Len(lastTick.landedOn) :
         LET p == lastTick.landedOn[k]
         IN p.type = "breakable" =>
              /\ p.broken
              /\ p.y < TrailingEdge => \E j \in 1..Len(platforms) : platforms[j] = p
    /\ \A j \in 1..Len(platforms) :
         platforms[j].broken =>
           platforms[j].type = "breakable" /\ platforms[j].y < TrailingEdge

\* the frog landed on a breakable platform, which is still there, broken
C20_Witness ==
  /\ lastTick.ran
  /\ \E k \in 1..Len(lastTick.landedOn) :
       /\ lastTick.landedOn[k].type = "breakable"
       /\ \E j \in 1..Len(platforms) : platforms[j] = lastTick.landedOn[k] /\ platforms[j].broken

\* C21: the instant spring pickup never occupies the configuration: when the
\* last pickup taken in a tick is a spring, the frog leaves the pickup phase
\* with no configuration, every timer and counter zero and vy = JUMP_FORCE *
\* 2.5, whatever it held before; a single spring pickup changes nothing else.
C21_SpringPickupIsInstant ==
  (lastTick.ran /\ lastTick.picked # <<>>
     /\ lastTick.picked[Len(lastTick.picked)] = "spring") =>
    /\ ~hasAnyPower(lastTick.pickedFrog)
    /\ TimersZero(lastTick.pickedFrog)
    /\ lastTick.pickedFrog.vy = (JUMP_FORCE * 25) \div 10
    /\ lastTick.pickedFrog.vy < 0
    /\ Len(lastTick.picked) = 1 =>
         lastTick.pickedFrog =
           [clearAllPowers(lastTick.landed) EXCEPT !.vy = (JUMP_FORCE * 25) \div 10]

\* a frog holding the shield took a spring: the shield is gone, the frog flies
C21_Witness ==
  /\ lastTick.ran /\ lastTick.picked = <<"spring">>
  /\ lastTick.preFrog.hasShield /\ lastTick.preFrog.shieldHits = 1
  /\ ~hasAnyPower(frog) /\ frog.shieldHits = 0
  /\ frog.vy = (JUMP_FORCE * 25) \div 10

\* C22 as stated: a power-up collected while another one is active is queued:
\* it is neither applied at once nor does it end the active one, so the frog
\* leaves the pickup phase with the configuration it entered it with.
C22_PowerupQueued ==
  (lastTick.ran /\ lastTick.picked # <<>> /\ hasAnyPower(lastTick.landed)) =>
    ActivePowers(lastTick.pickedFrog) = ActivePowers(lastTick.landed)

\* the distance in whole pixels from the shooting frog's centre to enemy e's
EnemyDistance(f, e) ==
  getDistance(f.x + FROG_WIDTH \div 2, f.y + FROG_HEIGHT \div 2,
              e.x + ENEMY_SIZE \div 2, e.y + ENEMY_SIZE \div 2)

\* the tick's laser shot: the frog of the shooting phase holds the laser, fire
\* is held (lastTick.armed: fire held by a frog with a weapon) and the
\* cooldown is 0
LaserShot == lastTick.ran /\ lastTick.pickedFrog.hasLaser
             /\ CanShoot(lastTick.pickedFrog, [shoot |-> lastTick.armed])

\* the bullets the shooting phase of the tick added
NewBullets == SubSeq(lastTick.bulletsIn, Len(lastTick.bulletsPre) + 1, Len(lastTick.bulletsIn))

\* enemies of the tick strictly nearer than 400 pixels to the shooting frog
InLaserRange ==
  { i \in 1..Len(lastTick.enemiesIn) :
      EnemyDistance(lastTick.pickedFrog, lastTick.enemiesIn[i]) < LASER_RANGE }

\* C23 as stated: with no enemy within 400 pixels the laser bullet is fired
\* straight up (vx = 0, vy < 0).
C23_LaserFallbackStraightUp ==
  (LaserShot /\ InLaserRange = {}) =>
    /\ Len(NewBullets) = 1
    /\ NewBullets[1].vx = 0 /\ NewBullets[1].vy < 0

\* C23: a laser shot adds exactly one bullet at the frog's centre; with an
\* enemy strictly nearer than 400 pixels it flies at speed 15 toward the centre
\* of a nearest such enemy (no enemy is nearer than the target); with none it
\* flies horizontally to the right (vx = 15, vy = 0).
C23_LaserAimedOrHorizontal ==
  LaserShot =>
    /\ Len(NewBullets) = 1
    /\ lastTick.bulletsPre = SubSeq(lastTick.bulletsIn, 1, Len(lastTick.bulletsPre))
    /\ NewBullets[1].type = "laser"
    /\ NewBullets[1].x = lastTick.pickedFrog.x + FROG_WIDTH \div 2
    /\ NewBullets[1].y = lastTick.pickedFrog.y + FROG_HEIGHT \div 2
    /\ InLaserRange = {} => NewBullets[1].vx = LASER_SPEED /\ NewBullets[1].vy = 0
    /\ InLaserRange # {} =>
         \E n \in InLaserRange :
           /\ \A m \in 1..Len(lastTick.enemiesIn) :
                EnemyDistance(lastTick.pickedFrog, lastTick.enemiesIn[n])
                  <= EnemyDistance(lastTick.pickedFrog, lastTick.enemiesIn[m])
           /\ LET v == Toward(lastTick.enemiesIn[n].x + ENEMY_SIZE \div 2 - NewBullets[1].x,
                              lastTick.enemiesIn[n].y + ENEMY_SIZE \div 2 - NewBullets[1].y,
                              LASER_SPEED)
              IN NewBullets[1].vx = v.x /\ NewBullets[1].vy = v.y

\* a laser shot with an enemy on the field but none within 400 pixels
C23_Witness ==
  /\ LaserShot /\ lastTick.enemiesIn # <<>> /\ InLaserRange = {}
  /\ Len(NewBullets) = 1 /\ NewBullets[1].vx = LASER_SPEED /\ NewBullets[1].vy = 0

\* C24 as stated: while the camera has not scrolled past the minimum depth
\* (cameraY = 0 after initGame included) there is no enemy.
C24_NoHostileBeforeCameraDepth ==
  cameraY >= ENEMY_MIN_DEPTH => enemies = <<>>

\* C24: the minimum depth bounds the platform an enemy is rolled with, not
\* the camera: every enemy stands 30 pixels above a platform generated
\* strictly above y = -500, so it lies wholly above the first screen (which
\* spans 0..CANVAS_HEIGHT), 1100 pixels and more above the start platform.
C24_HostilesAboveMinimumDepth ==
  \A i \in 1..Len(enemies) :
    /\ enemies[i].y < ENEMY_MIN_DEPTH - Px(30)
    /\ enemies[i].y + ENEMY_SIZE < 0
    /\ START_PLATFORM.y - enemies[i].y > Px(1100)

\* a run just initialised (camera 0, score 0, frog at the start) that already
\* holds an enemy on its topmost platform
C24_Witness ==
  /\ runs = 1 /\ ~lastTick.ran /\ frog = createFrog /\ cameraY = 0 /\ score = 0
  /\ Len(enemies) = 1 /\ enemies[1].y = Px(600) - (INIT_PLATFORMS - 1) * Px(100) - Px(30)

\* a run started by initGame in which no update has run yet
FreshRun == runs > 0 /\ ~lastTick.ran

\* C25: after initGame, whatever the previous run left: the platforms, gems,
\* enemies and pickups are one of the worlds initGame builds (15 generated
\* platforms and the start platform), there is no bullet, score and cameraY
\* are 0, and the frog is the one createFrog builds: at its start position,
\* at rest, no configuration, not invincible, every timer, counter and the
\* cooldown zero.
C25_NewRunResetsState ==
  FreshRun =>
    /\ \E w \in initGame :
         /\ platforms = w.platforms /\ gems = w.gems
         /\ enemies = w.enemies /\ powerups = w.powerups
    /\ Len(platforms) = INIT_PLATFORMS + 1
    /\ platforms[Len(platforms)] = START_PLATFORM
    /\ bullets = <<>> /\ score = 0 /\ cameraY = 0
    /\ frog = createFrog
    /\ frog.x = CANVAS_WIDTH \div 2 - Px(30) /\ frog.y = Px(500)
    /\ frog.vx = 0 /\ frog.vy = 0
    /\ ~hasAnyPower(frog) /\ TimersZero(frog)
    /\ ~frog.invincible /\ frog.invincibleTimer = 0
    /\ gameState = "playing"

\* a new run started after a run that ended with points on the board
C25_Witness ==
  /\ FreshRun /\ ticks > 0 /\ highScore > 0
  /\ score = 0 /\ cameraY = 0 /\ frog = createFrog /\ bullets = <<>>

\* C26 as stated: the tick that ends a run leaves the high score at the
\* maximum of the previous high score and the run's score, the high score
\* never decreases, and while the game-over screen is up the high score is at
\* least the score it shows.
C26_HighScoreCoversFinalScore ==
  /\ lastTick.ran => highScore >= lastTick.preHigh
  /\ (lastTick.ran /\ lastTick.preState = "playing" /\ gameState = "gameover") =>
       highScore = Max(lastTick.preHigh, score)
  /\ gameState = "gameover" => highScore >= score

\* the platforms the frog, as the movement phase of the tick left it, passes
\* the landing test of
Crossed == lastTick.crossed

\* the movement phase of the tick left the frog descending and out of flight
Descending ==
  lastTick.ran /\ lastTick.moved.vy > 0
  /\ ~lastTick.moved.hasRocket /\ ~lastTick.moved.hasPropeller

\* C27: a descending frog that passes the landing test of a platform lands
\* in that tick and leaves the platform phase with vy < 0; a single landing
\* gives JUMP_FORCE, times 1.5 on a spring platform, times 1.6 under the
\* spring shoes; a frog with no configuration on a normal platform leaves
\* with exactly JUMP_FORCE; and a tick that starts with the frog at
\* JUMP_FORCE and no configuration moves it upward.
C27_LandingImpulse ==
  /\ (Descending /\ Crossed # {}) =>
       /\ lastTick.landings # <<>>
       /\ lastTick.landed.vy < 0
       /\ lastTick.landed.vy \in
            { JUMP_FORCE, (JUMP_FORCE * 15) \div 10, SpringShoesJump(JUMP_FORCE),
              (SpringShoesJump(JUMP_FORCE) * 15) \div 10 }
  /\ (lastTick.ran /\ Len(lastTick.landings) = 1) =>
       LET base == IF lastTick.moved.hasSpringShoes
                   THEN SpringShoesJump(JUMP_FORCE) ELSE JUMP_FORCE
       IN lastTick.landed.vy =
            IF lastTick.landedOn[1].type = "spring" THEN (base * 15) \div 10 ELSE base
  /\ (Descending /\ ~hasAnyPower(lastTick.moved) /\ Len(lastTick.landings) = 1
        /\ lastTick.landedOn[1].type = "normal") =>
       /\ lastTick.landed.vy = JUMP_FORCE
       /\ (lastTick.contacts = <<>> /\ lastTick.picked = <<>> /\ ~lastTick.rescued) =>
            frog.vy = JUMP_FORCE
  /\ (lastTick.ran /\ lastTick.preFrog.vy = JUMP_FORCE /\ ~hasAnyPower(lastTick.preFrog)) =>
       /\ lastTick.moved.vy = JUMP_FORCE + GRAVITY
       /\ lastTick.moved.y = lastTick.preFrog.y + JUMP_FORCE + GRAVITY
       /\ lastTick.moved.y < lastTick.preFrog.y
  /\ (lastTick.ran /\ ~Descending) => lastTick.landings = <<>>

\* the tick after a plain landing: the frog left the platform at JUMP_FORCE
\* and is now on its way up
C27_Witness ==
  /\ ticks = 2 /\ lastTick.ran /\ ~hasAnyPower(lastTick.preFrog)
  /\ lastTick.preFrog.vy = JUMP_FORCE
  /\ lastTick.moved.y < lastTick.preFrog.y /\ frog.vy = JUMP_FORCE + GRAVITY

\* the cooldown and the number of bullets of the weapon the frog holds
WeaponOf(f) ==
  IF f.hasLaser THEN [cooldown |-> POWER_CONFIG.laser.cooldown, bullets |-> 1]
  ELSE IF f.hasShotgun THEN [cooldown |-> POWER_CONFIG.shotgun.cooldown, bullets |-> 3]
  ELSE [cooldown |-> POWER_CONFIG.tommyGun.cooldown, bullets |-> 1]

\* With fire held and nothing else touching the frog: the number of ticks
\* until the cooldown phase and the gate of the shooting phase let the frog
\* f shoot, counted from n.
RECURSIVE TicksToShot(_, _)
TicksToShot(f, n) ==
  LET g == WeaponCooldown(f)
  IN IF CanShoot(g, [shoot |-> TRUE]) THEN n ELSE TicksToShot(g, n + 1)

\* the shooting phase of the tick fired
Shot == lastTick.ran /\ Len(lastTick.bulletsIn) > Len(lastTick.bulletsPre)

\* C28: bullets are spawned in a tick exactly when, at the shooting phase,
\* fire is held, the frog holds a weapon and its cooldown is 0; the shot
\* adds 1 bullet (laser, tommy gun) or 3 (shotgun) and sets the cooldown to
\* 15 / 40 / 5; the cooldown phase takes exactly 1 off a positive cooldown
\* once per tick, before the gate, and no other phase changes it short of
\* clearing the powers; so with fire held the next shot comes exactly 15 /
\* 40 / 5 ticks after a shot.
C28_FiringGatedByCooldown ==
  lastTick.ran =>
    /\ Shot <=> CanShoot(lastTick.pickedFrog, [shoot |-> lastTick.armed])
    /\ lastTick.bulletsPre = SubSeq(lastTick.bulletsIn, 1, Len(lastTick.bulletsPre))
    /\ Shot =>
         /\ lastTick.armed /\ hasWeapon(lastTick.pickedFrog)
         /\ lastTick.pickedFrog.weaponCooldown = 0
         /\ Len(NewBullets) = WeaponOf(lastTick.pickedFrog).bullets
         /\ lastTick.shotFrog.weaponCooldown = WeaponOf(lastTick.pickedFrog).cooldown
         /\ lastTick.shotFrog =
              [lastTick.pickedFrog EXCEPT
                 !.weaponCooldown = WeaponOf(lastTick.pickedFrog).cooldown]
         /\ TicksToShot(lastTick.shotFrog, 1) = WeaponOf(lastTick.pickedFrog).cooldown
    /\ ~Shot => lastTick.shotFrog = lastTick.pickedFrog
    /\ lastTick.moved.weaponCooldown = Max(lastTick.preFrog.weaponCooldown - 1, 0)
    /\ lastTick.landed.weaponCooldown = lastTick.moved.weaponCooldown
    /\ lastTick.picked = <<>> => lastTick.pickedFrog.weaponCooldown = lastTick.moved.weaponCooldown
    /\ frog.weaponCooldown \in {lastTick.shotFrog.weaponCooldown, 0}
    /\ hasWeapon(frog) /\ hasWeapon(lastTick.shotFrog) =>
         frog.weaponCooldown = lastTick.shotFrog.weaponCooldown
    /\ frog.weaponCooldown >= 0

\* a tommy gun two ticks into its cooldown with fire held: no shot in the
\* first tick, the shot in the second, and the cooldown back at 5
C28_Witness ==
  /\ ticks = 2 /\ Shot /\ lastTick.armed /\ keys.shoot /\ lastTick.preFrog.hasTommyGun
  /\ lastTick.preFrog.weaponCooldown = 1 /\ lastTick.bulletsPre = <<>>
  /\ Len(bullets) = 1 /\ frog.weaponCooldown = POWER_CONFIG.tommyGun.cooldown

\* a bullet after its move of the tick
MovedBullet(b) == [b EXCEPT !.x = @ + b.vx, !.y = @ + b.vy]

\* how often x occurs in the sequence q
Count(q, x) == Cardinality({ i \in 1..Len(q) : q[i] = x })

\* the bullets of the tick after their move
MovedBullets == [i \in 1..Len(lastTick.bulletsIn) |-> MovedBullet(lastTick.bulletsIn[i])]

\* the moved bullets of the tick that lie inside enemy e
Inside(e) == { i \in 1..Len(MovedBullets) : BulletInEnemy(MovedBullets[i], e) }

C30_BulletRemovedOnlyForItself ==
  lastTick.ran =>
    \A i \in 1..Len(MovedBullets) :
      Count(bullets, MovedBullets[i]) < Count(MovedBullets, MovedBullets[i]) =>
        \/ BulletOffScreen(MovedBullets[i], cameraY)
        \/ \E k \in 1..Len(lastTick.hits) : lastTick.hits[k].bullet = MovedBullets[i]

\* C31: a platform resolves a landing in a tick only if the movement phase
\* left the frog with vy > 0 and neither rocket nor propeller; in every other
\* tick the platform phase leaves the frog as it found it (vy, the spring
\* shoes and their counter included) and marks no platform broken, also when
\* the frog overlaps a platform's landing window.
C31_LandingOnlyWhenDescending ==
  lastTick.ran =>
    /\ lastTick.landings # <<>> =>
         /\ lastTick.moved.vy > 0
         /\ ~lastTick.moved.hasRocket /\ ~lastTick.moved.hasPropeller
    /\ ~Descending =>
         /\ lastTick.landings = <<>>
         /\ lastTick.landed = lastTick.moved
         /\ lastTick.landed.vy = lastTick.moved.vy
         /\ lastTick.landed.springShoesJumps = lastTick.moved.springShoesJumps
         /\ lastTick.brokenMid = lastTick.brokenPre

\* a frog in flight inside the landing window of a platform: no landing
C31_Witness ==
  /\ lastTick.ran /\ ~Descending /\ lastTick.crossed # {}
  /\ lastTick.moved.hasRocket \/ lastTick.moved.hasPropeller
  /\ lastTick.landings = <<>> /\ lastTick.landed.vy = lastTick.moved.vy

\* the frog, as the movement phase left it, is inside the landing window of
\* platform p, broken or not
InWindow(f, p) ==
  /\ f.x + FROG_WIDTH > p.x
  /\ f.x < p.x + p.width
  /\ f.y + FROG_HEIGHT > p.y
  /\ f.y + FROG_HEIGHT < p.y + p.height + f.vy + Px(5)

\* the platforms of the state, as a set
PlatformSet == { platforms[i] : i \in 1..Len(platforms) }

\* C32: only breakable platforms are ever broken; a platform broken before a
\* tick is still broken after the platform phase and, unless the cleanup
\* removed it, at the end of the tick, and no unbroken copy of it appears;
\* no landing of the tick is on a platform that was broken before it, so a
\* frog that meets only broken platforms keeps its vy and its spring shoes;
\* every landing on a breakable platform leaves it broken, and the platforms
\* newly broken in a tick are exactly the breakable ones landed on.
C32_BrokenIsOneWay ==
  /\ \A p \in PlatformSet : p.broken => p.type = "breakable"
  /\ lastTick.ran =>
       /\ lastTick.brokenPre \subseteq lastTick.brokenMid
       /\ \A p \in lastTick.brokenMid :
            /\ p.type = "breakable"
            /\ p \in PlatformSet \/ p.y >= cameraY + CANVAS_HEIGHT + CULL_MARGIN
            /\ [p EXCEPT !.broken = FALSE] \notin PlatformSet
       /\ \A k \in 1..Len(lastTick.landedOn) :
            /\ lastTick.landedOn[k] \notin lastTick.brokenPre
            /\ lastTick.landedOn[k].broken <=> lastTick.landedOn[k].type = "breakable"
       /\ lastTick.brokenMid \ lastTick.brokenPre =
            { lastTick.landedOn[k] : k \in { j \in 1..Len(lastTick.landedOn) :
                                               lastTick.landedOn[j].type = "breakable" } }
       /\ lastTick.landings = <<>> =>
            /\ lastTick.landed = lastTick.moved
            /\ lastTick.brokenMid = lastTick.brokenPre

\* a descending frog inside the landing window of a broken platform falls
\* through it: no landing, vy and the spring shoes untouched, and the
\* platform is still there, still broken
C32_Witness ==
  /\ Descending /\ lastTick.landings = <<>>
  /\ \E p \in lastTick.brokenPre : InWindow(lastTick.moved, p) /\ p \in PlatformSet
  /\ lastTick.moved.hasSpringShoes /\ frog.springShoesJumps = lastTick.preFrog.springShoesJumps
  /\ frog.vy = lastTick.moved.vy /\ frog.vy > 0

\* the sum of the tier values of the gems of q
RECURSIVE GemValues(_, _)
GemValues(q, i) == IF i > Len(q) THEN 0 ELSE GEM_VALUES[q[i].type] + GemValues(q, i + 1)

\* the gems of the state, as a set
GemSet == { gems[i] : i \in 1..Len(gems) }

\* C33: the gem phase of a tick adds to the score exactly the tier values
\* (10, 25 or 50) of the uncollected gems overlapping the frog, each once;
\* every such gem is marked and removed by the cleanup of the same tick, so
\* no state between ticks holds a collected gem, a gem that was scored is not
\* in the collection any more (marked or not) and cannot be scored again.
C33_GemScoredOnce ==
  /\ \A g \in GemSet : ~g.collected
  /\ lastTick.ran =>
       /\ lastTick.scores[3] = lastTick.scores[2] + GemValues(lastTick.gemsHit, 1)
       /\ \A k \in 1..Len(lastTick.gemsHit) :
            LET g == lastTick.gemsHit[k]
            IN /\ ~g.collected
               /\ GEM_VALUES[g.type] \in {10, 25, 50}
               /\ GemHit(lastTick.landed, g)
               /\ g \notin GemSet
               /\ [g EXCEPT !.collected = TRUE] \notin GemSet
               /\ Count(lastTick.gemsHit, g) = 1
       /\ \A g \in GemSet : ~GemHit(lastTick.landed, g)

\* the tick after a gem was collected: the frog is where the gem was, the
\* gem is gone and scores nothing more
C33_Witness ==
  /\ ticks = 2 /\ lastTick.ran /\ lastTick.gemsHit = <<>> /\ gems = <<>>
  /\ lastTick.scores[3] = lastTick.scores[2]
  /\ lastTick.scores[1] = AltitudeScore(RUN_CAMERA) + GEM_VALUES[NearGem.type]
  /\ checkCollision(lastTick.landed.x, lastTick.landed.y, FROG_WIDTH, FROG_HEIGHT,
                    NearGem.x, NearGem.y, GEM_WIDTH, GEM_HEIGHT, 0)

\* C34 as stated: once a tick has ended the run, nothing advances the
\* simulation until a new run is started: every step taken while the game
\* is over and stays over leaves the score, the camera, the frog and every
\* entity collection unchanged.
C34_NoAdvanceAfterRunEnded ==
  [][(gameState = "gameover" /\ gameState' = "gameover") =>
       UNCHANGED <<frog, platforms, gems, enemies, powerups, bullets, cameraY, score>>]_vars


\* The velocity a flight configuration forces on the frog in the physics phase.
FlightSpeed == [rocket |-> ROCKET_SPEED, propeller |-> PROPELLER_SPEED]

\* The physics and timed-power phases of one tick, which hold every countdown
\* of a timed configuration.
TimerPhases(f) == TimedPowers(PowerPhysics(f))

\* The frog after the timer phases of n ticks in which nothing else acts on its
\* configuration.  The n ticks are run in two halves, the frog between them
\* taken as a value, which keeps the evaluation shallow.
RECURSIVE AfterTicks(_, _)
AfterTicks(f, n) ==
  IF n = 0 THEN f
  ELSE IF n = 1 THEN TimerPhases(f)
  ELSE CHOOSE g \in { AfterTicks(m, n - n \div 2) : m \in {AfterTicks(f, n \div 2)} } : TRUE

\* The frog as created that has just collected the pickup p.  The countdown
\* reads nothing of a frog but the flags and counters of its timed
\* configurations.
Fresh(p) == CollectPowerup(createFrog, p)

\* Counted from its pickup, a timed configuration is active after each of the
\* first D - 1 timer phases and not after the D-th; a flight configuration
\* leaves the frog with its flight velocity in each of the D phases.
ExpiresOnTime ==
  \A p \in TimedPowerNames :
    LET D == POWER_CONFIG[p].duration
    IN /\ \A k \in 0..(D - 1) : TimedPower(AfterTicks(Fresh(p), k))[p].on
       /\ ~TimedPower(AfterTicks(Fresh(p), D))[p].on
       /\ p \in DOMAIN FlightSpeed =>
            \A k \in 1..D : AfterTicks(Fresh(p), k).vy = FlightSpeed[p]

\* The timed configuration p was acquired in the tick just run and is still
\* held at its end.
Acquired(p) ==
  /\ lastTick.ran
  /\ lastTick.picked # <<>>
  /\ lastTick.picked[Len(lastTick.picked)] = p
  /\ TimedPower(frog)[p].on

\* C35: every timed configuration expires after exactly its duration D (rocket
\* 90, propeller 150, magnet 360, sumo 150). A configuration acquired in tick t
\* leaves the frog's timed flags and counters as a fresh pickup does, and
\* goes through exactly D timer phases (ticks t+1..t+D) before its flag is
\* false, and a rocket or propeller forces its flight velocity in each of those
\* D ticks. In a tick that starts with the counter above 1 the configuration is
\* still active after the timer phase (the magnet and sumo effects of that tick
\* see it); in the tick that starts with counter 1 the flight velocity is still
\* forced, but the flag is false after the timer phase, so the magnet and the
\* sumo no longer act in that tick and the configuration is none at its end
\* unless a pickup of the tick grants it again.
C35_TimedPowerExpires ==
  \A p \in TimedPowerNames :
    /\ Acquired(p) =>
         /\ TimedPower(frog)[p].timer = POWER_CONFIG[p].duration
         /\ TimedPower(frog) = TimedPower(Fresh(p))
         /\ ExpiresOnTime
    /\ lastTick.ran =>
         LET pre == TimedPower(lastTick.preFrog)[p]
             mov == TimedPower(lastTick.moved)[p]
         IN /\ (pre.on /\ p \in DOMAIN FlightSpeed) => lastTick.moved.vy = FlightSpeed[p]
            /\ (pre.on /\ pre.timer > 1) =>
                 /\ mov.on
                 /\ TimedPower(lastTick.landed)[p].on
            /\ (pre.on /\ pre.timer = 1) =>
                 /\ ~mov.on /\ mov.timer = 0
                 /\ ~TimedPower(lastTick.landed)[p].on
                 /\ lastTick.picked = <<>> =>
                      /\ \A i \in 1..Len(lastTick.contacts) :
                           ~TimedPower(lastTick.contacts[i].pre)[p].on
                      /\ ~TimedPower(frog)[p].on

\* a magnet was picked up in this tick and is held with its full duration
C35_Witness ==
  /\ Acquired("magnet")
  /\ frog.magnetTimer = 360
  /\ ~lastTick.preFrog.hasMagnet


\* The frog after the invincibility phases of n ticks with no further grant
\* (run in two halves, the frog between them taken as a value).
RECURSIVE InvincibleAfter(_, _)
InvincibleAfter(f, n) ==
  IF n = 0 THEN f
  ELSE IF n = 1 THEN InvincibilityTimer(f)
  ELSE CHOOSE g \in { InvincibleAfter(m, n - n \div 2) :
                        m \in {InvincibleAfter(f, n \div 2)} } : TRUE

\* An invincible frog is still invincible, with its timer at 1, after one
\* phase less than its timer says, and vulnerable after exactly that many.
WearsOff(f) ==
  LET last == InvincibleAfter(f, f.invincibleTimer - 1)
  IN /\ last.invincible /\ last.invincibleTimer = 1
     /\ ~InvincibilityTimer(last).invincible
     /\ InvincibilityTimer(last).invincibleTimer = 0

\* The contacts of the tick just run that granted invincibility.
GrantingContacts ==
  {i \in 1..Len(lastTick.contacts) :
     ~lastTick.contacts[i].pre.invincible /\ lastTick.contacts[i].post.invincible}

\* The invincibility granted by contact i: 60 when the shield broke, 90 when a
\* configuration was lost to the hit.
GrantOf(i) ==
  IF lastTick.contacts[i].pre.hasShield THEN SHIELD_BREAK_INVINCIBILITY
  ELSE INVINCIBILITY_DURATION

\* C36: at the end of every tick invincible is true exactly when
\* invincibleTimer > 0, and the timer is never negative. The invincibility
\* phase of a tick takes exactly 1 off the timer of an invincible frog, clears
\* the flag exactly when the timer reaches 0 and leaves a vulnerable frog
\* alone; with no grant in the tick that is the frog's timer at its end. A
\* grant (60 on shield break and on fall rescue, 90 on a hit that costs a
\* configuration) leaves a frog that is vulnerable again after exactly that
\* many further ticks.
C36_InvincibilityExpires ==
  /\ frog.invincibleTimer >= 0
  /\ frog.invincible <=> frog.invincibleTimer > 0
  /\ lastTick.ran =>
       LET pre == lastTick.preFrog
           mov == lastTick.moved
       IN /\ pre.invincible =>
               /\ mov.invincibleTimer = pre.invincibleTimer - 1
               /\ mov.invincible <=> mov.invincibleTimer > 0
          /\ ~pre.invincible => /\ ~mov.invincible
                                /\ mov.invincibleTimer = pre.invincibleTimer
          /\ (GrantingContacts = {} /\ ~lastTick.rescued) =>
               /\ frog.invincibleTimer = mov.invincibleTimer
               /\ frog.invincible = mov.invincible
          /\ \A i \in GrantingContacts :
               /\ lastTick.contacts[i].post.invincibleTimer = GrantOf(i)
               /\ WearsOff(lastTick.contacts[i].post)
          /\ lastTick.rescued =>
               /\ frog.invincible
               /\ frog.invincibleTimer = FALL_RESCUE_INVINCIBILITY
          /\ frog.invincible => WearsOff(frog)

\* the shield broke in this tick: 60 frames of invincibility, counted down to
\* vulnerable in exactly 60 further ticks
C36_Witness ==
  /\ lastTick.ran
  /\ \E i \in GrantingContacts : lastTick.contacts[i].pre.hasShield
  /\ frog.invincible /\ frog.invincibleTimer = 60
  /\ WearsOff(frog)


Abs(n) == IF n < 0 THEN -n ELSE n

\* C37: moving platforms and hostiles reflect at the side walls: whenever one
\* of them, after its horizontal move, has x <= 0 or x + width >= CANVAS_WIDTH,
\* the velocity it is left with points back into the screen (so its next move
\* is not further outward), and it is outside the screen by no more than one
\* step of its speed.
C37_WallReflection ==
  \A m \in lastTick.atWall :
    /\ m.x <= 0 => m.vx > 0
    /\ m.x + m.width >= CANVAS_WIDTH => m.vx < 0
    /\ m.x >= -Abs(m.vx)
    /\ m.x + m.width <= CANVAS_WIDTH + Abs(m.vx)


\* By how much a score lies above the altitude score of a camera offset.
Excess(sc, cam) == sc - AltitudeScore(cam)

\* The event bonuses awarded in the last tick: the values of the gems
\* collected, 25 per enemy shot, 100 per enemy killed by the sumo suit.
EventBonus ==
  GemValues(lastTick.gemsHit, 1) + 25 * lastTick.kills
    + 100 * Cardinality({i \in 1..Len(lastTick.contacts) :
                           /\ lastTick.contacts[i].pre.hasSumo
                           /\ lastTick.contacts[i].removed})

\* C38: the score dominates the altitude: in every state
\* score >= floor(-cameraY / 10); a run starts with the score equal to its
\* altitude score; and no tick raises the excess of the score over the
\* altitude score by more than the event bonuses awarded in that tick (gem
\* values, 25 per enemy shot, 100 per sumo kill) - so the excess never exceeds
\* the sum of the bonuses awarded so far in the run. The score never falls.
C38_ScoreDominatesAltitude ==
  /\ score >= AltitudeScore(cameraY)
  /\ ~lastTick.ran => Excess(score, cameraY) = 0
  /\ lastTick.ran =>
       /\ score >= lastTick.scores[1]
       /\ score = lastTick.scores[2] + EventBonus
       /\ Excess(score, cameraY) <= Excess(lastTick.scores[1], lastTick.preCam) + EventBonus
       /\ Excess(lastTick.scores[2], cameraY) <= Excess(lastTick.scores[1], lastTick.preCam)

\* the second tick of a frog that scored a bonus in the first: the camera rises
\* and the altitude score with it, the score stays above it, by less than
\* before
C38_Witness ==
  /\ ticks = 2 /\ lastTick.ran
  /\ cameraY < lastTick.preCam
  /\ Excess(lastTick.scores[1], lastTick.preCam) > 0
  /\ Excess(score, cameraY) > 0
  /\ Excess(score, cameraY) < Excess(lastTick.scores[1], lastTick.preCam)


MIN_GAP == 8000
MAX_GAP == 14000

\* The k-th platform created by the generation loop of the last tick: the
\* loop appends, and the cull keeps what lies above the bottom margin.
Created(k) == platforms[Len(platforms) - lastTick.generated + k]

\* The tracked top before the k-th iteration of the loop.
TrackedTop(k) == IF k = 1 THEN lastTick.preTop ELSE Created(k - 1).y

\* C39: the generation loop terminates and never runs on an empty platform
\* set. The platform collection is never empty and its topmost platform lies
\* above the cull line, so the cull keeps it; the topmost platform after a tick
\* is the last one created, or the topmost found when none was. Each iteration
\* runs only while the tracked top is within 200 of the camera and lowers it by
\* at least 80 (and less than 140), and the loop ends with the top past that
\* margin. The number n of platforms created in a tick is bounded by the
\* camera's ascent in it: none when the camera did not move, and otherwise
\* 80 * (n - 1) < ascent.
C39_GenerationTerminates ==
  /\ platforms # <<>>
  /\ highestPlatform(platforms) < cameraY + CANVAS_HEIGHT + CULL_MARGIN
  /\ highestPlatform(platforms) <= cameraY - GENERATION_MARGIN
  /\ lastTick.ran =>
       LET n == lastTick.generated
       IN /\ n >= 0 /\ n <= Len(platforms)
          /\ lastTick.culled >= 0
          /\ highestPlatform(platforms) = IF n = 0 THEN lastTick.preTop ELSE Created(n).y
          /\ \A k \in 1..n :
               /\ TrackedTop(k) > cameraY - GENERATION_MARGIN
               /\ Created(k).y <= TrackedTop(k) - MIN_GAP
               /\ Created(k).y > TrackedTop(k) - MAX_GAP
          /\ cameraY = lastTick.preCam => n = 0
          /\ n > 0 => MIN_GAP * (n - 1) < lastTick.preCam - cameraY

\* the camera rose past the margin of the topmost platform: one platform was
\* created above it and became the topmost
C39_Witness ==
  /\ lastTick.ran
  /\ lastTick.generated = 1
  /\ cameraY < lastTick.preCam
  /\ Created(1).y < lastTick.preTop
  /\ highestPlatform(platforms) = Created(1).y

====
